---- MODULE Spec2Model ----
(***************************************************************************)
(* num2words: a request (Num2Words) holds a number, a language, an output  *)
(* kind, a currency and a list of preference strings; to_words resolves    *)
(* the language and dispatches to its renderer.                            *)
(*                                                                         *)
(* Numbers.  The program computes on num_bigfloat::BigFloat, a decimal     *)
(* floating-point number.  A value is modelled as a record                 *)
(*     [inf, neg, m, e]   standing for   (-1)^neg * m * 10^e               *)
(* with m a natural number without trailing zero digits (m = 0 for zero).  *)
(* Multiplying or dividing by a power of ten moves e and leaves m alone,   *)
(* as it does in a decimal mantissa, so magnitudes far above 2^31 are      *)
(* handled without overflowing the integers of the checker: every m of an  *)
(* input has at most six digits.                                    *)
(*                                                                         *)
(* Text.  Cyrillic words are written in a Latin transliteration (one       *)
(* letter group per letter, the apostrophe kept); the tables keep the      *)
(* order and the shape of the source.                                      *)
(*                                                                         *)
(* Results.  <<"Ok", text>>, <<"Err", kind>>, <<"Panic", "">> (an unwrap   *)
(* of None or an index out of range), <<"None", "">> (no result yet).      *)
(***************************************************************************)
EXTENDS Integers, Sequences, FiniteSets, TLC

\* ------------------------------------------------------------------------
\* The numeric type (num_bigfloat::BigFloat)
\* ------------------------------------------------------------------------

\* the number of digits after the decimal point the model's numbers hold
MaxFracDigits == 9

\* smallest decimal exponent of a mantissa digit: digits below it are lost,
\* so repeated division ends at zero (the numeric type of the program
\* underflows in the same way, at a lower exponent)
MinExp == 0 - MaxFracDigits

RECURSIVE Pow10(_)
Pow10(n) == IF n = 0 THEN 1 ELSE 10 * Pow10(n - 1)

RECURSIVE NumDigits(_)
NumDigits(m) == IF m < 10 THEN 1 ELSE 1 + NumDigits(m \div 10)

RECURSIVE Norm(_, _, _)
\* the record of (-1)^neg * m * 10^e, trailing zero digits moved into e
Norm(neg, m, e) ==
    IF m = 0 THEN [inf |-> FALSE, neg |-> FALSE, m |-> 0, e |-> 0]
    ELSE IF m % 10 = 0 THEN Norm(neg, m \div 10, e + 1)
    ELSE [inf |-> FALSE, neg |-> neg, m |-> m, e |-> e]

FromInt(i) == IF i < 0 THEN Norm(TRUE, 0 - i, 0) ELSE Norm(FALSE, i, 0)

PosInf == [inf |-> TRUE, neg |-> FALSE, m |-> 0, e |-> 0]
NegInf == [inf |-> TRUE, neg |-> TRUE, m |-> 0, e |-> 0]

is_inf(x) == x.inf
is_inf_pos(x) == x.inf /\ ~x.neg
is_inf_neg(x) == x.inf /\ x.neg
is_zero(x) == ~x.inf /\ x.m = 0
is_negative(x) == x.neg

\* -x
Negate(x) == IF is_zero(x) THEN x ELSE [x EXCEPT !.neg = ~x.neg]

\* x.abs()
Abs(x) == [x EXCEPT !.neg = FALSE]

\* x.int(): the integral part, truncated towards zero, sign kept
int(x) ==
    IF x.inf \/ x.e >= 0 THEN x
    ELSE IF 0 - x.e >= NumDigits(x.m) THEN Norm(FALSE, 0, 0)
    ELSE Norm(x.neg, x.m \div Pow10(0 - x.e), 0)

\* x.frac(): the fractional part, sign kept
frac(x) ==
    IF x.inf \/ x.e >= 0 THEN Norm(FALSE, 0, 0)
    ELSE IF 0 - x.e >= NumDigits(x.m) THEN x
    ELSE Norm(x.neg, x.m % Pow10(0 - x.e), x.e)

\* x * 10^k (k >= 0): exact
MulPow10(x, k) == IF x.inf \/ x.m = 0 THEN x ELSE [x EXCEPT !.e = x.e + k]

\* x / 10^k (k >= 0): exact while the digits stay above MinExp, the digits
\* below MinExp are dropped
DivPow10(x, k) ==
    IF x.inf \/ x.m = 0 THEN x
    ELSE IF x.e - k >= MinExp THEN [x EXCEPT !.e = x.e - k]
    ELSE IF MinExp - (x.e - k) >= NumDigits(x.m) THEN Norm(FALSE, 0, 0)
    ELSE Norm(x.neg, x.m \div Pow10(MinExp - (x.e - k)), MinExp)

\* x % 10^k (k in 2..3): the remainder of the truncated division, with the
\* sign of x and the fractional digits of x
RemPow10(x, k) ==
    IF x.e >= k THEN Norm(FALSE, 0, 0)
    ELSE IF x.e >= 0 THEN Norm(x.neg, (x.m * Pow10(x.e)) % Pow10(k), 0)
    ELSE IF 0 - x.e >= NumDigits(x.m) THEN x
    ELSE Norm(x.neg, x.m % Pow10(k - x.e), x.e)

\* the value of an integer below 10^9, as an integer
SmallVal(x) == x.m * Pow10(x.e)

\* whether the integral part of x lies in the range of u64
\* (0 <= x <= 18446744073709551615; m has at most six digits)
FitsU64(x) ==
    LET InRange(t) ==
          \/ t.m = 0
          \/ /\ ~t.neg
             /\ \/ t.e < 14
                \/ t.e <= 19 /\ t.m <= 184467 \div Pow10(t.e - 14)
    IN ~x.inf /\ InRange(int(x))

\* x.to_u64(): <<TRUE, v>> for Some(v), <<FALSE, 0>> for None (infinite,
\* negative, or above the range).  Of the converted value the model keeps
\* the three lowest digits, which is all that any caller reads.
to_u64(x) ==
    IF FitsU64(x) THEN <<TRUE, SmallVal(RemPow10(int(x), 3))>> ELSE <<FALSE, 0>>

\* whether the integral part of x lies in the range of i64
\* (|x| <= 9223372036854775807; m has at most six digits)
FitsI64(x) ==
    LET InRange(t) ==
          \/ t.m = 0
          \/ t.e < 13
          \/ t.e <= 18 /\ t.m <= 922337 \div Pow10(t.e - 13)
    IN ~x.inf /\ InRange(int(x))

\* whether the integral part of x lies in the range of u128
\* (0 <= x <= 340282366920938463463374607431768211455)
FitsU128(x) ==
    LET InRange(t) ==
          \/ t.m = 0
          \/ /\ ~t.neg
             /\ \/ t.e < 33
                \/ t.e <= 38 /\ t.m <= 340282 \div Pow10(t.e - 33)
    IN ~x.inf /\ InRange(int(x))

\* x = 1
IsOne(x) == ~x.inf /\ ~x.neg /\ x.m = 1 /\ x.e = 0

\* x > 0
IsPositive(x) == ~x.neg /\ (x.inf \/ x.m # 0)

\* ------------------------------------------------------------------------
\* Text
\* ------------------------------------------------------------------------

Digit == <<"0", "1", "2", "3", "4", "5", "6", "7", "8", "9">>

RECURSIVE NatStr(_)
NatStr(n) == IF n < 10 THEN Digit[n + 1] ELSE NatStr(n \div 10) \o Digit[(n % 10) + 1]

RECURSIVE Zeros(_)
Zeros(k) == IF k = 0 THEN "" ELSE "0" \o Zeros(k - 1)

\* format!("{}", x.to_u128().unwrap()) of a non-negative integer in range
IntStr(x) == IF x.m = 0 THEN "0" ELSE NatStr(x.m) \o Zeros(x.e)

RECURSIVE Join(_, _)
Join(words, sep) ==
    IF Len(words) = 0 THEN ""
    ELSE IF Len(words) = 1 THEN words[1]
    ELSE words[1] \o sep \o Join(Tail(words), sep)

Ok(s) == <<"Ok", s>>
Err(k) == <<"Err", k>>
Panic == <<"Panic", "">>
NoResult == <<"None", "">>
IsOk(r) == r[1] = "Ok"

\* ------------------------------------------------------------------------
\* Magnitude decomposer (the same code in the three languages)
\* ------------------------------------------------------------------------

RECURSIVE split_loop(_, _)
split_loop(num, thousands) ==
    IF is_zero(num) THEN thousands
    ELSE split_loop(DivPow10(num, 3),
                    Append(thousands, to_u64(RemPow10(num, 3))[2]))

\* split_thousands keeping no more triplets than the scale table names
split_thousands_capped(num) ==
    LET Capped(thousands) ==
          IF Len(thousands) > 22 THEN SubSeq(thousands, 1, 22) ELSE thousands
    IN Capped(split_loop(num, <<>>))

split_thousands(num) == split_loop(num, <<>>)

\* ------------------------------------------------------------------------
\* Strings: the std operations the renderers use
\* ------------------------------------------------------------------------

RECURSIVE SplitFrom(_, _, _, _, _)
\* s.split(c): the pieces of s between the occurrences of the character c
SplitFrom(s, c, i, cur, acc) ==
    IF i > Len(s) THEN Append(acc, cur)
    ELSE IF SubSeq(s, i, i) = c THEN SplitFrom(s, c, i + 1, "", Append(acc, cur))
    ELSE SplitFrom(s, c, i + 1, cur \o SubSeq(s, i, i), acc)

split(s, c) == SplitFrom(s, c, 1, "", <<>>)

\* s.split_whitespace(): the non-empty pieces between spaces
split_whitespace(s) == SelectSeq(split(s, " "), LAMBDA w : w # "")

\* s.contains(c)
contains(s, c) == Len(split(s, c)) > 1

\* s.ends_with(c)
ends_with(s, c) == Len(s) > 0 /\ SubSeq(s, Len(s), Len(s)) = c

\* &s[..s.len() - 1]
DropLast(s) == SubSeq(s, 1, Len(s) - 1)

\* template.replace("{}", r): a template is kept as its pieces around "{}"
replace(template, r) == Join(template, r)

\* ------------------------------------------------------------------------
\* Currency catalog (currency.rs), for the currencies of the model
\* ------------------------------------------------------------------------

Currencies == {"DOLLAR", "UAH"}

\* Currency::default_string
default_string(currency, plural_form) ==
    replace(CASE currency = "DOLLAR" -> <<"dollar", "">>
              [] currency = "UAH" -> <<"hryvnia", "">>,
            IF plural_form THEN "s" ELSE "")

\* Currency::default_subunit_string
default_subunit_string(currency, cent, plural_form) ==
    replace(CASE currency = "UAH" -> <<"kopiyok", "">>
              [] OTHER -> cent,
            IF plural_form THEN "s" ELSE "")

\* Currency::default_cent_string, which English::cents calls: the default
\* subunit name with the English word "cent"
default_cent_string(currency, plural_form) ==
    default_subunit_string(currency, <<"cent", "">>, plural_form)

\* ------------------------------------------------------------------------
\* English (lang/en.rs).  Rust arrays are indexed from 0, sequences from 1.
\* ------------------------------------------------------------------------

EN_UNITS == <<"one", "two", "three", "four", "five", "six", "seven", "eight", "nine">>

EN_TENS == <<"ten", "twenty", "thirty", "forty", "fifty", "sixty", "seventy",
             "eighty", "ninety">>

EN_TEENS == <<"ten", "eleven", "twelve", "thirteen", "fourteen", "fifteen",
              "sixteen", "seventeen", "eighteen", "nineteen">>

EN_MEGAS == <<"thousand", "million", "billion", "trillion", "quadrillion",
              "quintillion", "sextillion", "septillion", "octillion",
              "nonillion", "decillion", "undecillion", "duodecillion",
              "tredecillion", "quattuordecillion", "quindecillion",
              "sexdecillion", "septendecillion", "octodecillion",
              "novemdecillion", "vigintillion">>

\* English::new with the two flags stored in each other's field
English_new_swapped(prefer_oh, prefer_nil) ==
    [prefer_oh |-> prefer_nil, prefer_nil |-> prefer_oh]

English_new(prefer_oh, prefer_nil) == [prefer_oh |-> prefer_oh, prefer_nil |-> prefer_nil]

English_currencies(self, currency, plural_form) == default_string(currency, plural_form)

English_cents(self, currency, plural_form) == default_cent_string(currency, plural_form)

\* the words of the tens and units of one triplet (the match on tens)
English_tens_units(tens, units) ==
    IF tens = 0 THEN EN_UNITS[units]
    ELSE IF tens = 1 THEN EN_TEENS[units + 1]
    ELSE IF units = 0 THEN EN_TENS[tens]
    ELSE EN_TENS[tens] \o "-" \o EN_UNITS[units]

RECURSIVE English_triplets(_, _, _, _)
\* the loop over the triplets, most significant first: k triplets are left,
\* the one handled now has index i = k - 1
English_triplets(triplets, k, words, first_elem) ==
    IF k = 0 THEN Ok(Join(words, " "))
    ELSE
      LET i == k - 1
          triplet == triplets[k]
          hundreds == (triplet \div 100) % 10
          tens == (triplet \div 10) % 10
          units == triplet % 10
          w1 == IF hundreds > 0 THEN words \o <<EN_UNITS[hundreds], "hundred">> ELSE words
          tu == tens # 0 \/ units # 0
          and == tu /\ i = 0 /\ ~first_elem
          first2 == IF tu /\ ~and THEN FALSE ELSE first_elem
          w2 == IF ~tu THEN w1
                ELSE (IF and THEN Append(w1, "and") ELSE w1)
                       \o <<English_tens_units(tens, units)>>
      IN IF i # 0 /\ triplet # 0
         THEN IF i > Len(EN_MEGAS) THEN Err("CannotConvert")
              ELSE English_triplets(triplets, k - 1, Append(w2, EN_MEGAS[i]), first2)
         ELSE English_triplets(triplets, k - 1, w2, first2)

English_int_to_cardinal(self, num) ==
    IF is_zero(num)
    THEN Ok(IF self.prefer_oh THEN "oh" ELSE IF self.prefer_nil THEN "nil" ELSE "zero")
    ELSE LET Render(triplets) ==
               English_triplets(triplets, Len(triplets),
                                IF is_negative(num) THEN <<"minus">> ELSE <<>>, TRUE)
         IN Render(split_thousands(Abs(num)))

RECURSIVE English_digits_nil(_, _, _)
\* the digit loop with a zero digit following the nil preference as well
English_digits_nil(self, ordinal_part, words) ==
    IF is_zero(ordinal_part) THEN Ok(Join(words, " "))
    ELSE LET Push(digit) ==
               IF ~digit[1] THEN Panic
               ELSE English_digits_nil(self, frac(MulPow10(ordinal_part, 1)),
                      Append(words,
                             IF digit[2] = 0
                             THEN (IF self.prefer_oh THEN "oh"
                                   ELSE IF self.prefer_nil THEN "nil" ELSE "zero")
                             ELSE EN_UNITS[digit[2]]))
         IN Push(to_u64(int(MulPow10(ordinal_part, 1))))

RECURSIVE English_digits(_, _, _)
\* the loop over the decimal digits of the fractional part
English_digits(self, ordinal_part, words) ==
    IF is_zero(ordinal_part) THEN Ok(Join(words, " "))
    ELSE LET Push(digit) ==
               IF ~digit[1] THEN Panic
               ELSE English_digits(self, frac(MulPow10(ordinal_part, 1)),
                      Append(words,
                             IF digit[2] = 0
                             THEN (IF self.prefer_oh THEN "oh" ELSE "zero")
                             ELSE EN_UNITS[digit[2]]))
         IN Push(to_u64(int(MulPow10(ordinal_part, 1))))

English_float_to_cardinal(self, num) ==
    LET integral_part == int(num)
        ordinal_part == frac(num)
        Rest(integral_word) ==
          IF ~is_zero(integral_part) /\ ~IsOk(integral_word) THEN integral_word
          ELSE English_digits(self, ordinal_part,
                 (IF ~is_zero(integral_part) THEN <<integral_word[2]>> ELSE <<>>)
                 \o (IF ~is_zero(ordinal_part) THEN <<"point">> ELSE <<>>))
    IN Rest(English_int_to_cardinal(self, integral_part))

English_to_cardinal(self, num) ==
    IF is_inf_pos(num) THEN Ok("infinity")
    ELSE IF is_inf_neg(num) THEN Ok("minus infinity")
    ELSE IF is_zero(frac(num)) THEN English_int_to_cardinal(self, num)
    ELSE English_float_to_cardinal(self, num)

\* the match on the last word (or on its part after the hyphen)
English_ordinal_suffix(suffix) ==
    CASE suffix = "one" -> "first"
      [] suffix = "two" -> "second"
      [] suffix = "three" -> "third"
      [] suffix = "four" -> "fourth"
      [] suffix = "five" -> "fifth"
      [] suffix = "six" -> "sixth"
      [] suffix = "seven" -> "seventh"
      [] suffix = "eight" -> "eighth"
      [] suffix = "nine" -> "ninth"
      [] suffix = "ten" -> "tenth"
      [] suffix = "eleven" -> "eleventh"
      [] suffix = "twelve" -> "twelfth"
      [] OTHER -> IF ends_with(suffix, "y") THEN DropLast(suffix) \o "ieth"
                  ELSE suffix \o "th"

\* the last word transformed whole, its hyphen ignored
English_last_word_whole(w) == English_ordinal_suffix(w)

\* the processing of the last word of the cardinal text
English_last_word(w) ==
    LET Last(w_split) ==
          IF contains(w, "-")
          THEN w_split[1] \o "-" \o English_ordinal_suffix(w_split[2])
          ELSE English_ordinal_suffix(w)
    IN Last(split(w, "-"))

English_to_ordinal(self, num) ==
    LET Words(ws) ==
          Ok(Join([j \in 1..Len(ws) |->
                     IF j < Len(ws) THEN ws[j] ELSE English_last_word(ws[j])], " "))
        Rest(cardinal_word) ==
          IF ~IsOk(cardinal_word) THEN cardinal_word
          ELSE Words(split_whitespace(cardinal_word[2]))
    IN Rest(English_to_cardinal(self, num))

English_to_ordinal_num(self, num) ==
    LET Suffix(tail, last) ==
          IF tail \div 10 # 1 /\ last = 1 THEN "st"
          ELSE IF tail \div 10 # 1 /\ last = 2 THEN "nd"
          ELSE IF tail \div 10 # 1 /\ last = 3 THEN "rd"
          ELSE "th"
        Rest(tailo) ==
          IF ~tailo[1] \/ ~FitsU128(num) THEN Panic
          ELSE Ok(IntStr(int(num)) \o Suffix(tailo[2] % 100, (tailo[2] % 100) % 10))
    IN Rest(to_u64(RemPow10(num, 2)))

English_to_year(self, num0) ==
    IF ~is_zero(frac(num0)) THEN Err("FloatingYear")
    ELSE
      LET suffix == IF is_negative(num0) THEN " BC" ELSE ""
          Pair(low, high_word, low_c) ==
            IF ~IsOk(high_word) THEN high_word
            ELSE IF is_zero(low) THEN Ok(high_word[2] \o " " \o "hundred")
            ELSE IF ~IsOk(low_c) THEN low_c
            ELSE IF SmallVal(low) < 10
                 THEN Ok(high_word[2] \o " " \o "oh-" \o low_c[2])
                 ELSE Ok(high_word[2] \o " " \o low_c[2])
          Suffixed(year_word) ==
            IF ~IsOk(year_word) THEN year_word
            ELSE Ok(year_word[2] \o suffix)
          Year(num, high, low) ==
            IF ~FitsI64(DivPow10(num, 2)) \/ ~FitsI64(low) THEN Panic
            ELSE Suffixed(
                   IF is_zero(high)
                      \/ ((high.e >= 1) /\ SmallVal(low) < 10)
                      \/ NumDigits(high.m) + high.e >= 3
                   THEN English_int_to_cardinal(self, num)
                   ELSE Pair(low, English_int_to_cardinal(self, high),
                             English_int_to_cardinal(self, low)))
          Split(num) == Year(num, int(DivPow10(num, 2)), RemPow10(num, 2))
      IN Split(IF is_negative(num0) THEN Negate(num0) ELSE num0)

\* the hundredths of an amount without the reduction modulo 100
cents_nb_whole(num) == int(MulPow10(num, 2))

\* the subunit count: (num * 100).int() % 100
cents_nb_of(num) == RemPow10(int(MulPow10(num, 2)), 2)

RECURSIVE English_to_currency(_, _, _)
English_to_currency(self, num, currency) ==
    IF is_inf(num)
    THEN Ok((IF is_negative(num) THEN "minus " ELSE "") \o "an infinity of "
            \o English_currencies(self, currency, TRUE))
    ELSE IF is_zero(frac(num))
    THEN LET Whole(words) ==
               IF ~IsOk(words) THEN words
               ELSE Ok(words[2] \o " " \o English_currencies(self, currency, ~IsOne(num)))
         IN Whole(English_int_to_cardinal(self, num))
    ELSE LET Both(integral_part, cents_nb, cents_words, cents_suffix, integral_word) ==
               IF ~IsOk(cents_words) THEN cents_words
               ELSE IF ~IsOk(integral_word) THEN integral_word
               ELSE IF is_zero(cents_nb) THEN integral_word
               ELSE IF is_zero(integral_part)
                    THEN Ok(cents_words[2] \o " " \o cents_suffix)
               ELSE Ok(integral_word[2] \o " and " \o cents_words[2]
                       \o " " \o cents_suffix)
             Parts(integral_part, cents_nb) ==
               Both(integral_part, cents_nb,
                    English_int_to_cardinal(self, cents_nb),
                    English_cents(self, currency, ~IsOne(cents_nb)),
                    English_to_currency(self, integral_part, currency))
         IN Parts(int(num), cents_nb_of(num))

\* ------------------------------------------------------------------------
\* French (lang/fr.rs)
\* ------------------------------------------------------------------------

FR_UNITS == <<"un", "deux", "trois", "quatre", "cinq", "six", "sept", "huit", "neuf">>

FR_TENS == <<"dix", "vingt", "trente", "quarante", "cinquante", "soixante",
             "soixante-dix", "quatre-vingt", "quatre-vingt-dix">>

FR_TEENS == <<"dix", "onze", "douze", "treize", "quatorze", "quinze", "seize",
              "dix-sept", "dix-huit", "dix-neuf">>

FR_MEGAS == <<"mille", "million", "milliard", "billion", "billiard", "trillion",
              "trilliard", "quadrillion", "quadrilliard", "quintillion",
              "quintilliard", "sextillion", "sextilliard", "septillion",
              "septilliard", "octillion", "octilliard", "nonillion",
              "nonilliard", "décillion", "décilliard", "unodécillion",
              "unodécilliard", "duodécillion", "duodécilliard", "trédécillion",
              "trédécilliard", "quattuordécillion", "quattuordécilliard",
              "quindécillion", "quindécilliard", "sexdécillion",
              "sexdécilliard">>

French_new(feminine, reformed, region) ==
    [feminine |-> feminine, reformed |-> reformed, region |-> region]

French_currencies(self, currency, plural_form) ==
    replace(CASE currency = "UAH" -> <<"hryvnia", "">>
              [] OTHER -> <<default_string(currency, plural_form)>>,
            IF plural_form THEN "s" ELSE "")

French_cents(self, currency, plural_form) ==
    replace(CASE currency = "UAH" -> <<"kopeck", "">>
              [] OTHER -> <<default_subunit_string(currency, <<"centime", "">>, plural_form)>>,
            IF plural_form THEN "s" ELSE "")

\* the tens word of a regional variant, <<TRUE, word>>, where the variant
\* has its own: the part of lang::fr that reads the region is not in fr.rs,
\* the words are those the documentation of Lang gives (70 in French_BE,
\* 80 in French_CH); <<FALSE, "">> where the word is that of Lang::French
French_regional_tens(region, tens) ==
    IF region = "BE" /\ tens = 7 THEN <<TRUE, "septante">>
    ELSE IF region = "CH" /\ tens = 8 THEN <<TRUE, "huitante">>
    ELSE <<FALSE, "">>

\* the words pushed for the tens and units of one triplet (at most one); a
\* regional tens word is composed as the regular tens words are
French_tens_units(self, i, hundreds, tens, units) ==
    LET et_string == IF units = 1 THEN (IF self.reformed THEN "-et-" ELSE " et ")
                     ELSE "-"
        unit == IF i = 0 /\ units = 1 /\ self.feminine THEN "une" ELSE FR_UNITS[units]
    IN IF French_regional_tens(self.region, tens)[1]
       THEN (IF units = 0 THEN <<French_regional_tens(self.region, tens)[2]>>
             ELSE <<French_regional_tens(self.region, tens)[2] \o et_string \o unit>>)
       ELSE IF units = 0 THEN <<FR_TENS[tens]>>
       ELSE IF tens = 0
            THEN (IF i = 0 \/ units > 1 \/ hundreds > 0 THEN <<unit>> ELSE <<>>)
       ELSE IF tens = 1 THEN <<FR_TEENS[units + 1]>>
       ELSE IF tens = 7 THEN <<FR_TENS[tens - 1] \o et_string \o FR_TEENS[units + 1]>>
       ELSE IF tens = 8 THEN <<FR_TENS[tens] \o "-" \o unit>>
       ELSE IF tens = 9 THEN <<FR_TENS[tens - 1] \o "-" \o FR_TEENS[units + 1]>>
       ELSE <<FR_TENS[tens] \o et_string \o unit>>

\* the loop over the triplets with "mille" given the plural of the other
\* scale words
RECURSIVE French_triplets_milles(_, _, _, _)
French_triplets_milles(self, triplets, k, words) ==
    IF k = 0 THEN Ok(Join(words, IF self.reformed THEN "-" ELSE " "))
    ELSE
      LET i == k - 1
          triplet == triplets[k]
          hundreds == (triplet \div 100) % 10
          tens == (triplet \div 10) % 10
          units == triplet % 10
          w1 == IF hundreds > 0
                THEN (IF hundreds # 1 THEN Append(words, FR_UNITS[hundreds]) ELSE words)
                     \o <<"cent">>
                ELSE words
          w2 == IF tens # 0 \/ units # 0
                THEN w1 \o French_tens_units(self, i, hundreds, tens, units)
                ELSE w1
          plural_form == IF (hundreds = 0 /\ tens = 0 /\ units = 1) THEN "" ELSE "s"
      IN IF i # 0 /\ triplet # 0
         THEN IF i > Len(FR_MEGAS) THEN Err("CannotConvert")
              ELSE French_triplets_milles(self, triplets, k - 1,
                                   Append(w2, FR_MEGAS[i] \o plural_form))
         ELSE French_triplets_milles(self, triplets, k - 1, w2)

RECURSIVE French_triplets(_, _, _, _)
French_triplets(self, triplets, k, words) ==
    IF k = 0 THEN Ok(Join(words, IF self.reformed THEN "-" ELSE " "))
    ELSE
      LET i == k - 1
          triplet == triplets[k]
          hundreds == (triplet \div 100) % 10
          tens == (triplet \div 10) % 10
          units == triplet % 10
          w1 == IF hundreds > 0
                THEN (IF hundreds # 1 THEN Append(words, FR_UNITS[hundreds]) ELSE words)
                     \o <<"cent">>
                ELSE words
          w2 == IF tens # 0 \/ units # 0
                THEN w1 \o French_tens_units(self, i, hundreds, tens, units)
                ELSE w1
          plural_form == IF (hundreds = 0 /\ tens = 0 /\ units = 1) \/ i = 1 THEN "" ELSE "s"
      IN IF i # 0 /\ triplet # 0
         THEN IF i > Len(FR_MEGAS) THEN Err("CannotConvert")
              ELSE French_triplets(self, triplets, k - 1,
                                   Append(w2, FR_MEGAS[i] \o plural_form))
         ELSE French_triplets(self, triplets, k - 1, w2)

French_int_to_cardinal(self, num) ==
    IF is_zero(num) THEN Ok("zéro")
    ELSE LET Render(triplets) ==
               French_triplets(self, triplets, Len(triplets),
                               IF is_negative(num) THEN <<"moins">> ELSE <<>>)
         IN Render(split_thousands(Abs(num)))

RECURSIVE French_digits(_, _)
French_digits(ordinal_part, words) ==
    IF is_zero(ordinal_part) THEN Ok(Join(words, " "))
    ELSE LET Push(digit) ==
               IF ~digit[1] THEN Panic
               ELSE French_digits(frac(MulPow10(ordinal_part, 1)),
                      Append(words, IF digit[2] = 0 THEN "zéro" ELSE FR_UNITS[digit[2]]))
         IN Push(to_u64(int(MulPow10(ordinal_part, 1))))

French_float_to_cardinal(self, num) ==
    LET integral_part == int(num)
        ordinal_part == frac(num)
        Rest(integral_word) ==
          IF ~is_zero(integral_part) /\ ~IsOk(integral_word) THEN integral_word
          ELSE French_digits(ordinal_part,
                 (IF ~is_zero(integral_part) THEN <<integral_word[2]>> ELSE <<>>)
                 \o (IF ~is_zero(ordinal_part) THEN <<"point">> ELSE <<>>))
    IN Rest(French_int_to_cardinal(self, integral_part))

French_to_cardinal(self, num) ==
    IF is_inf_pos(num) THEN Ok("infinité")
    ELSE IF is_inf_neg(num) THEN Ok("moins infinité")
    ELSE IF is_zero(frac(num)) THEN French_int_to_cardinal(self, num)
    ELSE French_float_to_cardinal(self, num)

French_to_ordinal(self, num) ==
    IF IsOne(num) THEN Ok("premier")
    ELSE LET Words(ws) ==
               Ok(Join([j \in 1..Len(ws) |->
                      IF j < Len(ws) THEN ws[j]
                      ELSE (IF ends_with(ws[j], "e") THEN DropLast(ws[j]) ELSE ws[j])
                           \o "ième"], " "))
             Rest(cardinal_word) ==
               IF ~IsOk(cardinal_word) THEN cardinal_word
               ELSE Words(split_whitespace(cardinal_word[2]))
         IN Rest(French_to_cardinal(self, num))

French_to_ordinal_num(self, num) ==
    IF ~FitsU128(num) THEN Panic
    ELSE Ok(IntStr(int(num)) \o (IF IsOne(num) THEN "er" ELSE "ème"))

French_to_year(self, num) ==
    IF is_negative(num)
    THEN LET Suffixed(c) == IF ~IsOk(c) THEN c ELSE Ok(c[2] \o " avant JC")
         IN Suffixed(French_to_cardinal(self, Negate(num)))
    ELSE French_to_cardinal(self, num)

RECURSIVE French_to_currency(_, _, _)
French_to_currency(self, num, currency) ==
    IF is_inf(num)
    THEN Ok((IF is_negative(num) THEN "moins " ELSE "") \o "une infinité de "
            \o French_currencies(self, currency, TRUE))
    ELSE IF is_zero(frac(num))
    THEN LET Whole(words) ==
               IF ~IsOk(words) THEN words
               ELSE Ok(words[2] \o " " \o French_currencies(self, currency, ~IsOne(num)))
         IN Whole(French_int_to_cardinal(self, num))
    ELSE LET Both(integral_part, cents_nb, cents_words, cents_suffix, integral_word) ==
               IF ~IsOk(cents_words) THEN cents_words
               ELSE IF ~IsOk(integral_word) THEN integral_word
               ELSE IF is_zero(cents_nb) THEN integral_word
               ELSE IF is_zero(integral_part)
                    THEN Ok(cents_words[2] \o " " \o cents_suffix)
               ELSE Ok(integral_word[2] \o " et " \o cents_words[2]
                       \o " " \o cents_suffix)
             Parts(integral_part, cents_nb) ==
               Both(integral_part, cents_nb,
                    French_int_to_cardinal(self, cents_nb),
                    French_cents(self, currency, ~IsOne(cents_nb)),
                    French_to_currency(self, integral_part, currency))
         IN Parts(int(num), cents_nb_of(num))

\* ------------------------------------------------------------------------
\* Ukrainian (lang/uk.rs).  Transliteration of the Cyrillic letters:
\*   a b v h g d e E(ye) Z(zh) z y i I(yi) j k l m n o p r s t u f x(kh)
\*   c(ts) C(ch) S(sh) W(shch) q(soft sign) U(yu) A(ya) '(apostrophe)
\* ------------------------------------------------------------------------

\* Declination::index, Gender::index, GrammaticalNumber::index (from 1)
Declination_index(d) ==
    CASE d = "Nominative" -> 1 [] d = "Genitive" -> 2 [] d = "Dative" -> 3
      [] d = "Accusative" -> 4 [] d = "Instrumental" -> 5 [] d = "Locative" -> 6

Gender_index(g) == CASE g = "Masculine" -> 1 [] g = "Feminine" -> 2 [] g = "Neuter" -> 3

GrammaticalNumber_index(n) == CASE n = "Singular" -> 1 [] n = "Plural" -> 2

Ukrainian_new(gender, number, declination) ==
    [gender |-> gender, number |-> number, declination |-> declination]

Ukrainian_default == Ukrainian_new("Masculine", "Singular", "Nominative")

\* feminine leaving the gender as it is
feminine_kept(self) == self

masculine(self) == [self EXCEPT !.gender = "Masculine"]
feminine(self) == [self EXCEPT !.gender = "Feminine"]
set_declination(self, declination) == [self EXCEPT !.declination = declination]
singular(self) == [self EXCEPT !.number = "Singular"]
plural(self) == [self EXCEPT !.number = "Plural"]
is_plural(self) == self.number = "Plural"

\* agreement_with_units with no test for the teens
agreement_with_units_no_teens(self, tens, units) ==
    IF units = 0 \/ units > 4
    THEN IF self.declination = "Nominative"
         THEN set_declination(plural(self), "Genitive")
         ELSE plural(self)
    ELSE IF units = 1 THEN singular(self)
    ELSE plural(self)

agreement_with_units(self, tens, units) ==
    IF units = 0 \/ units > 4 \/ tens = 1
    THEN IF self.declination = "Nominative"
         THEN set_declination(plural(self), "Genitive")
         ELSE plural(self)
    ELSE IF units = 1 THEN singular(self)
    ELSE plural(self)

agreement_with_num(self, num) ==
    LET Agree(tail) == agreement_with_units(self, tail \div 10, tail % 10)
        Unwrapped(o) == Agree((IF o[1] THEN o[2] ELSE 0) % 100)
    IN Unwrapped(to_u64(num))

UK_MINUS == "minus"

UK_INFINITY ==
    <<"neskinCennistq", "neskinCennosti", "neskinCennosti",
      "neskinCennistq", "neskinCennistU", "neskinCennosti">>

UK_ZERO ==
    <<"nulq", "nulA", "nulU", "nulq", "nulem", "nuli">>

UK_ORDINAL_ZERO_BASE == "nulqov"

UK_GENDERED ==
    <<<<<<"odyn", "odnoho", "odnomu", "odyn", "odnym", "odnomu">>,
        <<"odna", "odnoI", "odnij", "odnu", "odnoU", "odnij">>,
        <<"odne", "odnoho", "odnomu", "odne", "odnym", "odnomu">>>>,
      <<<<"dva", "dvox", "dvom", "dva", "dvoma", "dvox">>,
        <<"dvi", "dvox", "dvom", "dvi", "dvoma", "dvox">>,
        <<"dva", "dvox", "dvom", "dva", "dvoma", "dvox">>>>>>

UK_ONE_BASE == "odno"

UK_UNITS ==
    <<<<"try", "trqox", "trqom", "try", "trqoma", "trqox">>,
      <<"Cotyry", "Cotyrqox", "Cotyrqom", "Cotyry", "Cotyrma", "Cotyrqox">>,
      <<"p'Atq", "p'Aty", "p'Aty", "p'Atq", "p'Atqma", "p'Aty">>,
      <<"Sistq", "Sesty", "Sisty", "Sistq", "Sistqma", "Sesty">>,
      <<"sim", "semy", "semy", "sim", "simoma", "semy">>,
      <<"visim", "vosqmy", "vosqmy", "visim", "visqma", "vosqmy">>,
      <<"dev'Atq", "dev'Aty", "dev'Aty", "dev'Atq", "dev'Atqma", "dev'Aty">>>>

UK_ORDINAL_UNIT_BASES ==
    <<"perS", "druh", "tret", "Cetvert", "p'At", "Sost", "sqom", "vosqm",
      "dev'At">>

UK_TEENS_BASES ==
    <<"desAt", "odynadcAt", "dvanadcAt", "trynadcAt", "CotyrnadcAt",
      "p'AtnadcAt", "SistnadcAt", "simnadcAt", "visimnadcAt",
      "dev'AtnadcAt">>

UK_TEENS_FLEXIONS ==
    <<"q", "y", "y", "q", "qma", "y">>

UK_TENS ==
    <<<<"dvadcAtq", "dvadcAty", "dvadcAty", "dvadcAtq", "dvadcAtqma",
  "dvadcAty">>,
      <<"trydcAtq", "trydcAty", "trydcAty", "trydcAtq", "trydcAtqma",
        "trydcAty">>,
      <<"sorok", "soroka", "soroka", "sorok", "soroka", "soroka">>,
      <<"p'AtdesAt", "p'AtdesAty", "p'AtdesAty", "p'AtdesAt",
        "p'AtdesAtqma", "p'AtdesAty">>,
      <<"SistdesAt", "SistdesAty", "SistdesAty", "SistdesAt",
        "SistdesAtqma", "SistdesAty">>,
      <<"simdesAt", "simdesAty", "simdesAty", "simdesAt", "simdesAtqma",
        "simdesAty">>,
      <<"visimdesAt", "visimdesAty", "visimdesAty", "visimdesAt",
        "visimdesAtqma", "visimdesAty">>,
      <<"dev'Anosto", "dev'Anosta", "dev'Anosta", "dev'Anosto",
        "dev'Anosta", "dev'Anosta">>>>

UK_ORDINAL_TENS_BASES ==
    <<"desAt", "dvadcAt", "trydcAt", "sorokov", "p'AtdesAt", "SistdesAt",
      "simdesAt", "visimdesAt", "dev'Anost">>

UK_HUNDREDS ==
    <<<<"sto", "sta", "sta", "sto", "sta", "sta">>,
      <<"dvisti", "dvoxsot", "dvomstam", "dvisti", "dvomastamy", "dvoxstax">>,
      <<"trysta", "trqoxsot", "trqomstam", "trysta", "trqomastamy",
        "trqoxstax">>,
      <<"Cotyrysta", "Cotyrqoxsot", "Cotyrqomstam", "Cotyrysta",
        "Cotyrmastamy", "Cotyrqoxstax">>,
      <<"p'Atsot", "p'Atysot", "p'Atystam", "p'Atsot", "p'Atqmastamy",
        "p'Atystax">>,
      <<"Sistsot", "Sestysot", "Sestystam", "Sistsot", "Sistqmastamy",
        "Sestystax">>,
      <<"simsot", "semysot", "semystam", "simsot", "simomastamy",
        "semystax">>,
      <<"visimsot", "vosqmysot", "vosqmystam", "visimsot", "vosqmystamy",
        "vosqmystax">>,
      <<"dev'Atsot", "dev'Atysot", "dev'Atystam", "dev'Atsot",
        "dev'Atqmastamy", "dev'Atystax">>>>

UK_HUNDRED_BASE == "sot"

UK_THOUSAND_FLEXIONS ==
    <<<<"a", "i", "i", "u", "eU", "i">>,
      <<"i", "", "am", "i", "amy", "ax">>>>

UK_MEGA_BASES ==
    <<"tysAC", "milqjon", "milqArd", "trylqjon", "kvadrylqjon",
      "kvintylqjon", "sekstylqjon", "septylqjon", "oktylqjon", "nonylqjon",
      "decylqjon", "undecylqjon", "dodecylqjon", "tredecylqjon",
      "kvattuordecylqjon", "kvindecylqjon", "sedecylqjon", "septdecylqjon",
      "duodevihintylqjon", "undevihintylqjon", "vihintylqjon">>

UK_MEGA_FLEXIONS ==
    <<<<"", "a", "u", "", "om", "i">>,
      <<"y", "iv", "am", "y", "amy", "y">>>>

UK_ADJECTIVE_HARD_FLEXIONS_SINGULAR ==
    <<<<"yj", "oho", "omu", "yj", "ym", "omu">>,
      <<"a", "oI", "ij", "u", "oU", "ij">>,
      <<"e", "oho", "omu", "e", "ym", "omu">>>>

UK_ADJECTIVE_HARD_FLEXIONS_PLURAL ==
    <<"i", "yx", "ym", "yx", "ymy", "yx">>

UK_ADJECTIVE_SOFT_FLEXIONS_SINGULAR ==
    <<<<"ij", "qoho", "qomu", "ij", "im", "qomu">>,
      <<"A", "qoI", "ij", "U", "qoU", "ij">>,
      <<"E", "qoho", "qomu", "E", "im", "qomu">>>>

UK_ADJECTIVE_SOFT_FLEXIONS_PLURAL ==
    <<"i", "ix", "im", "ix", "imy", "ix">>

UK_ORDINAL_HARD_FLEXIONS_SINGULAR_SHORT ==
    <<<<"j", "ho", "mu", "j", "m", "mu">>,
      <<"a", "I", "j", "u", "oU", "j">>,
      <<"e", "ho", "mu", "e", "m", "mu">>>>

UK_ORDINAL_SOFT_FLEXIONS_SINGULAR_SHORT ==
    <<<<"j", "ho", "mu", "j", "m", "mu">>,
      <<"A", "I", "j", "U", "oU", "j">>,
      <<"E", "ho", "mu", "E", "m", "mu">>>>

UK_ORDINAL_FLEXIONS_PLURAL_SHORT ==
    <<"i", "x", "m", "x", "my", "x">>

UK_NOUN_2ST_GROUP_HARD_DECLINATIONS ==
    <<<<"", "a", "u", "a", "om", "i">>,
      <<"y", "iv", "am", "y", "amy", "ax">>>>

UK_HRYVNIAS ==
    <<<<"hryvnA", "hryvni", "hryvni", "hryvnU", "hryvneU", "hryvni">>,
      <<"hryvni", "hryvenq", "hryvnAm", "hryvni", "hryvnAmy", "hryvnAx">>>>

UK_KOPIYKAS ==
    <<<<"kopijka", "kopijky", "kopijci", "kopijku", "kopijkoU", "kopijci">>,
      <<"kopijky", "kopijok", "kopijkam", "kopijky", "kopijkamy",
        "kopijkax">>>>

UK_YEAR ==
    <<<<"rik", "roku", "roku", "rik", "rokom", "roci">>,
      <<"roky", "rokiv", "rokam", "roky", "rokamy", "rokax">>>>

\* Ukrainian::currencies with the singular forms whatever the number
Ukrainian_currencies_singular(self, currency) ==
    LET declination_idx == Declination_index(self.declination)
    IN CASE currency = "DOLLAR" ->
              "dolar" \o UK_NOUN_2ST_GROUP_HARD_DECLINATIONS[1][declination_idx]
         [] currency = "UAH" -> UK_HRYVNIAS[1][declination_idx]

Ukrainian_currencies(self, currency) ==
    LET number_idx == GrammaticalNumber_index(self.number)
        declination_idx == Declination_index(self.declination)
    IN CASE currency = "DOLLAR" ->
              "dolar" \o UK_NOUN_2ST_GROUP_HARD_DECLINATIONS[number_idx][declination_idx]
         [] currency = "UAH" -> UK_HRYVNIAS[number_idx][declination_idx]

\* currency_properties leaving the gender of the caller
currency_properties_kept(self, currency) == self

currency_properties(self, currency) ==
    IF currency = "UAH" THEN feminine(self) ELSE masculine(self)

Ukrainian_currency_fraction(self, currency) ==
    LET number_idx == GrammaticalNumber_index(self.number)
        declination_idx == Declination_index(self.declination)
    IN CASE currency = "DOLLAR" ->
              "cent" \o UK_NOUN_2ST_GROUP_HARD_DECLINATIONS[number_idx][declination_idx]
         [] currency = "UAH" -> UK_KOPIYKAS[number_idx][declination_idx]

currency_fraction_properties(self, currency) ==
    IF currency = "UAH" THEN feminine(self) ELSE masculine(self)

RECURSIVE Ukrainian_triplets(_, _, _, _)
Ukrainian_triplets(self, triplets, k, words) ==
    IF k = 0 THEN Ok(Join(words, " "))
    ELSE
      LET order == k - 1
          triplet == triplets[k]
          hundreds == (triplet \div 100) % 10
          tens == (triplet \div 10) % 10
          units == triplet % 10
          d == Declination_index(self.declination)
          w1 == IF hundreds > 0 THEN Append(words, UK_HUNDREDS[hundreds][d]) ELSE words
          properties ==
              agreement_with_units(IF order = 0 THEN self
                                   ELSE IF order = 1 THEN feminine(self)
                                   ELSE masculine(self), tens, units)
          props == IF order = 0 THEN self ELSE properties
          w2 == IF tens = 1
                THEN Append(w1, UK_TEENS_BASES[units + 1] \o UK_TEENS_FLEXIONS[d])
                ELSE (IF tens > 1 THEN Append(w1, UK_TENS[tens - 1][d]) ELSE w1)
                     \o (IF units = 1 \/ units = 2
                         THEN <<UK_GENDERED[units][Gender_index(props.gender)]
                                           [Declination_index(props.declination)]>>
                         ELSE IF units > 0 THEN <<UK_UNITS[units - 2][d]>>
                         ELSE <<>>)
          mega_flexion ==
              IF order = 1
              THEN UK_THOUSAND_FLEXIONS[GrammaticalNumber_index(properties.number)]
                                       [Declination_index(properties.declination)]
              ELSE UK_MEGA_FLEXIONS[GrammaticalNumber_index(properties.number)]
                                   [Declination_index(properties.declination)]
      IN IF order # 0 /\ triplet # 0
         THEN IF order > Len(UK_MEGA_BASES) THEN Err("CannotConvert")
              ELSE Ukrainian_triplets(self, triplets, k - 1,
                                      Append(w2, UK_MEGA_BASES[order] \o mega_flexion))
         ELSE Ukrainian_triplets(self, triplets, k - 1, w2)

Ukrainian_int_to_cardinal(self, num) ==
    IF is_zero(num) THEN Ok(UK_ZERO[Declination_index(self.declination)])
    ELSE LET Render(triplets) ==
               Ukrainian_triplets(self, triplets, Len(triplets),
                                  IF is_negative(num) THEN <<UK_MINUS>> ELSE <<>>)
         IN Render(split_thousands(Abs(num)))

\* ordinal_flexion: <<FALSE, "">> when the unwrap of to_u64 fails
ordinal_flexion(self, num) ==
    LET Flexions(is_soft) ==
          IF is_plural(self)
          THEN (IF is_soft THEN UK_ADJECTIVE_SOFT_FLEXIONS_PLURAL
                ELSE UK_ADJECTIVE_HARD_FLEXIONS_PLURAL)
          ELSE (IF is_soft
                THEN UK_ADJECTIVE_SOFT_FLEXIONS_SINGULAR[Gender_index(self.gender)]
                ELSE UK_ADJECTIVE_HARD_FLEXIONS_SINGULAR[Gender_index(self.gender)])
        Soft(tail) == tail % 10 = 3 /\ tail # 13
        Unwrapped(o) ==
          IF ~o[1] THEN <<FALSE, "">>
          ELSE <<TRUE, Flexions(Soft(o[2] % 100))[Declination_index(self.declination)]>>
    IN Unwrapped(to_u64(RemPow10(num, 2)))

\* ordinal_flexion_short with the hard endings for every number
ordinal_flexion_short_hard(self, num) ==
    IF is_plural(self)
    THEN <<TRUE, UK_ORDINAL_FLEXIONS_PLURAL_SHORT[Declination_index(self.declination)]>>
    ELSE <<TRUE, UK_ORDINAL_HARD_FLEXIONS_SINGULAR_SHORT
                   [Gender_index(self.gender)][Declination_index(self.declination)]>>

\* ordinal_flexion_short: <<FALSE, "">> when the unwrap of to_u64 fails
ordinal_flexion_short(self, num) ==
    IF is_plural(self)
    THEN <<TRUE, UK_ORDINAL_FLEXIONS_PLURAL_SHORT[Declination_index(self.declination)]>>
    ELSE LET Soft(tail) == tail % 10 = 3 /\ tail # 13
             Unwrapped(o) ==
               IF ~o[1] THEN <<FALSE, "">>
               ELSE IF Soft(o[2] % 100)
               THEN <<TRUE, UK_ORDINAL_SOFT_FLEXIONS_SINGULAR_SHORT
                              [Gender_index(self.gender)][Declination_index(self.declination)]>>
               ELSE <<TRUE, UK_ORDINAL_HARD_FLEXIONS_SINGULAR_SHORT
                              [Gender_index(self.gender)][Declination_index(self.declination)]>>
         IN Unwrapped(to_u64(RemPow10(num, 2)))

\* the fused word of the last non-empty triplet when its index is not 0
Ukrainian_fused(hundreds, tens, units) ==
    (IF hundreds > 0 THEN UK_HUNDREDS[hundreds][Declination_index("Genitive")] ELSE "")
    \o (IF tens = 1
        THEN UK_TEENS_BASES[units + 1] \o UK_TEENS_FLEXIONS[Declination_index("Genitive")]
        ELSE (IF tens > 1 THEN UK_TENS[tens - 1][Declination_index("Genitive")] ELSE "")
             \o (IF units = 1 THEN UK_ONE_BASE
                 ELSE IF units = 2
                      THEN UK_GENDERED[2][Gender_index("Masculine")]
                                      [Declination_index("Genitive")]
                 ELSE IF units >= 3
                      THEN UK_UNITS[units - 2][Declination_index("Genitive")]
                 ELSE ""))

\* the words of the last non-empty triplet when its index is 0
Ukrainian_last_words(self, hundreds, tens, units, flexion) ==
    IF tens = 0 /\ units = 0 THEN <<UK_HUNDRED_BASE \o flexion>>
    ELSE (IF hundreds > 0
          THEN <<UK_HUNDREDS[hundreds][Declination_index("Nominative")]>> ELSE <<>>)
         \o (IF tens = 1 THEN <<UK_TEENS_BASES[units + 1] \o flexion>>
             ELSE IF units = 0 THEN <<UK_ORDINAL_TENS_BASES[tens] \o flexion>>
             ELSE (IF tens > 1
                   THEN <<UK_TENS[tens - 1][Declination_index("Nominative")]>>
                   ELSE <<>>)
                  \o <<UK_ORDINAL_UNIT_BASES[units]
                       \o ordinal_flexion(self, FromInt(units))[2]>>)

RECURSIVE Ukrainian_ordinal_triplets(_, _, _, _, _, _)
\* the loop of to_ordinal over the triplets, most significant first
Ukrainian_ordinal_triplets(self, triplets, k, words, last_non_empty, flexion) ==
    IF k = 0 THEN Ok(Join(words, " "))
    ELSE
      LET order == k - 1
          triplet == triplets[k]
          hundreds == (triplet \div 100) % 10
          tens == (triplet \div 10) % 10
          units == triplet % 10
          n == Declination_index("Nominative")
      IN
      IF order = last_non_empty
      THEN IF order # 0
           THEN IF order > Len(UK_MEGA_BASES) THEN Panic
                ELSE Ok(Join(Append(words,
                          Ukrainian_fused(hundreds, tens, units)
                          \o UK_MEGA_BASES[order] \o "n" \o flexion), " "))
           ELSE Ok(Join(words \o Ukrainian_last_words(self, hundreds, tens, units, flexion),
                        " "))
      ELSE
        LET w1 == IF hundreds > 0 THEN Append(words, UK_HUNDREDS[hundreds][n]) ELSE words
            properties ==
                agreement_with_units(IF order = 1 THEN feminine(Ukrainian_default)
                                     ELSE Ukrainian_default, tens, units)
            w2 == IF tens = 1
                  THEN Append(w1, UK_TEENS_BASES[units + 1] \o UK_TEENS_FLEXIONS[n])
                  ELSE (IF tens > 1 THEN Append(w1, UK_TENS[tens - 1][n]) ELSE w1)
                       \o (IF units = 1 \/ units = 2
                           THEN <<UK_GENDERED[units][Gender_index(properties.gender)][n]>>
                           ELSE IF units > 0 THEN <<UK_UNITS[units - 2][n]>>
                           ELSE <<>>)
            mega_flexion ==
                IF order = 1
                THEN UK_THOUSAND_FLEXIONS[GrammaticalNumber_index(properties.number)]
                                         [Declination_index(properties.declination)]
                ELSE UK_MEGA_FLEXIONS[GrammaticalNumber_index(properties.number)]
                                     [Declination_index(properties.declination)]
        IN IF order # 0 /\ triplet # 0
           THEN IF order > Len(UK_MEGA_BASES) THEN Panic
                ELSE Ukrainian_ordinal_triplets(self, triplets, k - 1,
                       Append(w2, UK_MEGA_BASES[order] \o mega_flexion),
                       last_non_empty, flexion)
           ELSE Ukrainian_ordinal_triplets(self, triplets, k - 1, w2,
                                           last_non_empty, flexion)

\* position taken as that of the first triplet
position_nonzero_first(triplets) == 0

\* triplets.iter().position(|&t| t != 0): the 0-based index of the lowest
\* non-zero triplet, -1 for None
position_nonzero(triplets) ==
    IF \E j \in 1..Len(triplets) : triplets[j] # 0
    THEN (CHOOSE j \in 1..Len(triplets) :
            /\ triplets[j] # 0
            /\ \A h \in 1..(j - 1) : triplets[h] = 0) - 1
    ELSE 0 - 1

Ukrainian_to_ordinal(self, num0) ==
    LET words == IF is_negative(num0) THEN <<UK_MINUS>> ELSE <<>>
        num == IF is_negative(num0) THEN Negate(num0) ELSE num0
        Loop(flexion, triplets, last_non_empty) ==
          IF last_non_empty < 0 THEN Panic
          ELSE IF /\ last_non_empty > 0
                  /\ triplets[last_non_empty + 1] = 1
                  /\ \A j \in (last_non_empty + 2)..Len(triplets) : triplets[j] = 0
          THEN IF last_non_empty > Len(UK_MEGA_BASES) THEN Panic
               ELSE Ok(UK_MEGA_BASES[last_non_empty] \o "n" \o flexion[2])
          ELSE Ukrainian_ordinal_triplets(self, triplets, Len(triplets), words,
                                          last_non_empty, flexion[2])
        Split(flexion, triplets) == Loop(flexion, triplets, position_nonzero(triplets))
        Rest(flexion) ==
          IF ~flexion[1] THEN Panic
          ELSE IF is_zero(num0) THEN Ok(UK_ORDINAL_ZERO_BASE \o flexion[2])
          ELSE Split(flexion, split_thousands(num))
    IN Rest(ordinal_flexion(self, num0))

RECURSIVE Ukrainian_scale(_, _)
\* the loop of float_to_cardinal: <<numerator, denominator>> once the
\* numerator has no fractional part
Ukrainian_scale(numerator, denominator) ==
    IF is_zero(frac(numerator)) THEN <<numerator, denominator>>
    ELSE Ukrainian_scale(MulPow10(numerator, 1), MulPow10(denominator, 1))

Ukrainian_float_to_cardinal(self, num) ==
    LET whole == int(num)
        numerator0 == Abs(frac(num))
    IN IF is_zero(numerator0) THEN Ukrainian_int_to_cardinal(self, whole)
       ELSE
         LET whole_flexion(whole_properties) ==
               (IF whole_properties.number = "Plural"
                THEN UK_ADJECTIVE_HARD_FLEXIONS_PLURAL
                ELSE UK_ADJECTIVE_HARD_FLEXIONS_SINGULAR[Gender_index("Feminine")])
               [Declination_index(whole_properties.declination)]
             Format(whole_properties, a, b, c) ==
               IF ~IsOk(a) THEN a
               ELSE IF ~IsOk(b) THEN b
               ELSE IF ~IsOk(c) THEN c
               ELSE Ok(a[2] \o " cil" \o whole_flexion(whole_properties)
                       \o " " \o b[2] \o " " \o c[2])
             Words(whole_properties, numerator_lang, numerator, denominator) ==
               Format(whole_properties,
                      Ukrainian_int_to_cardinal(feminine(whole_properties), whole),
                      Ukrainian_int_to_cardinal(numerator_lang, numerator),
                      Ukrainian_to_ordinal(numerator_lang, denominator))
             Scaled(nd) ==
               Words(agreement_with_num(self, whole),
                     feminine(agreement_with_num(self, nd[1])), nd[1], nd[2])
         IN Scaled(Ukrainian_scale(numerator0, FromInt(1)))

Ukrainian_to_cardinal(self, num) ==
    IF is_inf_pos(num) THEN Ok(UK_INFINITY[Declination_index(self.declination)])
    ELSE IF is_inf_neg(num)
    THEN Ok(UK_MINUS \o " " \o UK_INFINITY[Declination_index(self.declination)])
    ELSE IF is_zero(frac(num)) THEN Ukrainian_int_to_cardinal(self, num)
    ELSE Ukrainian_float_to_cardinal(self, num)

Ukrainian_to_ordinal_num(self, num) ==
    LET Rest(flexion) ==
          IF ~flexion[1] \/ ~FitsU128(num) THEN Panic
          ELSE Ok(IntStr(int(num)) \o "-" \o flexion[2])
    IN Rest(ordinal_flexion_short(self, num))

Ukrainian_to_year(self, num) ==
    IF ~is_zero(frac(num)) THEN Err("CannotConvert")
    ELSE IF is_inf(num) THEN Err("InfiniteYear")
    ELSE LET year_lang == masculine(self)
             year == UK_YEAR[GrammaticalNumber_index(self.number)]
                            [Declination_index(self.declination)]
             Format(o) ==
               IF ~IsOk(o) THEN o
               ELSE IF IsPositive(num) THEN Ok(o[2] \o " " \o year)
               ELSE Ok(o[2] \o " " \o year \o " do n.e.")
         IN Format(Ukrainian_to_ordinal(year_lang,
                                        IF IsPositive(num) THEN num ELSE Negate(num)))

RECURSIVE Ukrainian_to_currency(_, _, _)
Ukrainian_to_currency(self, num, currency) ==
    IF is_inf(num)
    THEN LET Format(currency_lang, c) ==
               IF ~IsOk(c) THEN c
               ELSE Ok(c[2] \o " " \o Ukrainian_currencies(
                                        agreement_with_num(currency_lang, num), currency))
             Words(currency_lang) ==
               Format(currency_lang, Ukrainian_to_cardinal(currency_lang, num))
         IN Words(currency_properties(self, currency))
    ELSE
      LET whole == int(num)
          fraction0 == frac(num)
          fraction == MulPow10(fraction0, 2)
          FormatWhole(currency_lang, c) ==
            IF ~IsOk(c) THEN c
            ELSE Ok(c[2] \o " " \o Ukrainian_currencies(
                                     agreement_with_num(currency_lang, whole), currency))
          WordsWhole(currency_lang) ==
            FormatWhole(currency_lang, Ukrainian_int_to_cardinal(currency_lang, whole))
          FormatFraction(currency_lang, c) ==
            IF ~IsOk(c) THEN c
            ELSE Ok(c[2] \o " " \o Ukrainian_currency_fraction(
                                     agreement_with_num(currency_lang, fraction), currency))
          WordsFraction(currency_lang) ==
            FormatFraction(currency_lang,
                           Ukrainian_int_to_cardinal(currency_lang, fraction))
          Both(a, b) ==
            IF ~IsOk(a) THEN a
            ELSE IF ~IsOk(b) THEN b
            ELSE Ok(a[2] \o " " \o b[2])
      IN IF is_zero(fraction0) \/ is_inf(num)
         THEN WordsWhole(currency_properties(self, currency))
         ELSE IF is_zero(whole)
         THEN WordsFraction(currency_fraction_properties(self, currency))
         ELSE Both(Ukrainian_to_currency(self, whole, currency),
                   Ukrainian_to_currency(self, fraction0, currency))

\* ------------------------------------------------------------------------
\* Language resolution (lang/lang.rs).  Preference strings of the model are
\* lower-case ASCII.
\* ------------------------------------------------------------------------

Langs == {"English", "French", "French_BE", "French_CH", "Ukrainian"}

\* impl FromStr for Declination: <<TRUE, d>> for Ok(d), <<FALSE, "">> for Err
Declination_from_str(s) ==
    CASE s \in {"nom", "nominative"} -> <<TRUE, "Nominative">>
      [] s \in {"gen", "genitive"} -> <<TRUE, "Genitive">>
      [] s \in {"dat", "dative"} -> <<TRUE, "Dative">>
      [] s \in {"acc", "accusative"} -> <<TRUE, "Accusative">>
      [] s \in {"ins", "instrumental"} -> <<TRUE, "Instrumental">>
      [] s \in {"loc", "locative"} -> <<TRUE, "Locative">>
      [] OTHER -> <<FALSE, "">>

\* impl FromStr for Gender
Gender_from_str(s) ==
    CASE s \in {"m", "masculine"} -> <<TRUE, "Masculine">>
      [] s \in {"f", "feminine"} -> <<TRUE, "Feminine">>
      [] s \in {"n", "neuter"} -> <<TRUE, "Neuter">>
      [] OTHER -> <<FALSE, "">>

\* impl FromStr for GrammaticalNumber
GrammaticalNumber_from_str(s) ==
    CASE s \in {"sing", "singular"} -> <<TRUE, "Singular">>
      [] s \in {"pl", "plural"} -> <<TRUE, "Plural">>
      [] OTHER -> <<FALSE, "">>

\* s.parse::<T>().ok() for T one of the three Ukrainian enums
parse(kind, s) ==
    CASE kind = "Declination" -> Declination_from_str(s)
      [] kind = "Gender" -> Gender_from_str(s)
      [] kind = "GrammaticalNumber" -> GrammaticalNumber_from_str(s)

\* find_map without rev(): the first preference of the kind
find_map_first(preferences, kind, default) ==
    IF \E j \in 1..Len(preferences) : parse(kind, preferences[j])[1]
    THEN parse(kind, preferences[CHOOSE j \in 1..Len(preferences) :
                 /\ parse(kind, preferences[j])[1]
                 /\ \A h \in 1..(j - 1) : ~parse(kind, preferences[h])[1]])[2]
    ELSE default

\* preferences.iter().rev().find_map(|d| d.parse().ok()).unwrap_or_default()
find_map_last(preferences, kind, default) ==
    IF \E j \in 1..Len(preferences) : parse(kind, preferences[j])[1]
    THEN parse(kind, preferences[CHOOSE j \in 1..Len(preferences) :
                 /\ parse(kind, preferences[j])[1]
                 /\ \A h \in (j + 1)..Len(preferences) : ~parse(kind, preferences[h])[1]])[2]
    ELSE default

\* preferences.iter().rev().find(|v| set.contains(v)): <<TRUE, v>> for
\* Some(v), <<FALSE, "">> for None
find_last(preferences, set) ==
    IF \E j \in 1..Len(preferences) : preferences[j] \in set
    THEN <<TRUE, preferences[CHOOSE j \in 1..Len(preferences) :
                   /\ preferences[j] \in set
                   /\ \A h \in (j + 1)..Len(preferences) : preferences[h] \notin set]>>
    ELSE <<FALSE, "">>

\* preferences.iter().find(|v| set.contains(v)).is_some()
find_any(preferences, set) == \E j \in 1..Len(preferences) : preferences[j] \in set

\* the region of Lang::French handed to every variant
RegionFrench_FR(lang) == "FR"

\* the region of a French variant
RegionFrench(lang) ==
    CASE lang = "French" -> "FR" [] lang = "French_BE" -> "BE" [] lang = "French_CH" -> "CH"

to_language(lang, preferences) ==
    IF lang = "English"
    THEN LET last == find_last(preferences, {"oh", "nil"})
         IN IF last[1]
            THEN [kind |-> "English",
                  self |-> English_new(last[2] = "oh", last[2] = "nil")]
            ELSE [kind |-> "English", self |-> English_new(FALSE, FALSE)]
    ELSE IF lang \in {"French", "French_BE", "French_CH"}
    THEN [kind |-> "French",
          self |-> French_new(
                     find_any(preferences, {"feminine", "feminin", "féminin", "f"}),
                     find_any(preferences, {"reformed", "1990", "rectifié", "rectification"}),
                     RegionFrench(lang))]
    ELSE [kind |-> "Ukrainian",
          self |-> Ukrainian_new(
                     find_map_last(preferences, "Gender", "Masculine"),
                     find_map_last(preferences, "GrammaticalNumber", "Singular"),
                     find_map_last(preferences, "Declination", "Nominative"))]

\* the methods of the trait Language, dispatched on the renderer
to_cardinal(l, num) ==
    CASE l.kind = "English" -> English_to_cardinal(l.self, num)
      [] l.kind = "French" -> French_to_cardinal(l.self, num)
      [] l.kind = "Ukrainian" -> Ukrainian_to_cardinal(l.self, num)

to_ordinal(l, num) ==
    CASE l.kind = "English" -> English_to_ordinal(l.self, num)
      [] l.kind = "French" -> French_to_ordinal(l.self, num)
      [] l.kind = "Ukrainian" -> Ukrainian_to_ordinal(l.self, num)

to_ordinal_num(l, num) ==
    CASE l.kind = "English" -> English_to_ordinal_num(l.self, num)
      [] l.kind = "French" -> French_to_ordinal_num(l.self, num)
      [] l.kind = "Ukrainian" -> Ukrainian_to_ordinal_num(l.self, num)

to_year(l, num) ==
    CASE l.kind = "English" -> English_to_year(l.self, num)
      [] l.kind = "French" -> French_to_year(l.self, num)
      [] l.kind = "Ukrainian" -> Ukrainian_to_year(l.self, num)

to_currency(l, num, currency) ==
    CASE l.kind = "English" -> English_to_currency(l.self, num, currency)
      [] l.kind = "French" -> French_to_currency(l.self, num, currency)
      [] l.kind = "Ukrainian" -> Ukrainian_to_currency(l.self, num, currency)

\* ------------------------------------------------------------------------
\* The request builder (num2words.rs)
\* ------------------------------------------------------------------------

Outputs == {"Cardinal", "Currency", "Ordinal", "OrdinalNum", "Year"}

\* to_words with the sign of an ordinal tested before its fractional part
to_words_sign_first(n, lang, out, cur, preferences) ==
    LET l == to_language(lang, preferences)
    IN CASE out = "Cardinal" -> to_cardinal(l, n)
         [] out = "Currency" -> to_currency(l, n, cur)
         [] out = "Ordinal" ->
              IF is_inf(n) THEN Err("InfiniteOrdinal")
              ELSE IF is_negative(n) THEN Err("NegativeOrdinal")
              ELSE IF ~is_zero(frac(n)) THEN Err("FloatingOrdinal")
              ELSE to_ordinal(l, n)
         [] out = "OrdinalNum" ->
              IF is_inf(n) THEN Err("InfiniteOrdinal")
              ELSE IF is_negative(n) THEN Err("NegativeOrdinal")
              ELSE IF ~is_zero(frac(n)) THEN Err("FloatingOrdinal")
              ELSE to_ordinal_num(l, n)
         [] out = "Year" ->
              IF is_inf(n) THEN Err("InfiniteYear")
              ELSE IF ~is_zero(frac(n)) THEN Err("FloatingYear")
              ELSE to_year(l, n)

\* to_words with a year handed to the renderer unguarded
to_words_year_unguarded(n, lang, out, cur, preferences) ==
    LET l == to_language(lang, preferences)
    IN CASE out = "Cardinal" -> to_cardinal(l, n)
         [] out = "Currency" -> to_currency(l, n, cur)
         [] out = "Ordinal" ->
              IF is_inf(n) THEN Err("InfiniteOrdinal")
              ELSE IF ~is_zero(frac(n)) THEN Err("FloatingOrdinal")
              ELSE IF is_negative(n) THEN Err("NegativeOrdinal")
              ELSE to_ordinal(l, n)
         [] out = "OrdinalNum" ->
              IF is_inf(n) THEN Err("InfiniteOrdinal")
              ELSE IF ~is_zero(frac(n)) THEN Err("FloatingOrdinal")
              ELSE IF is_negative(n) THEN Err("NegativeOrdinal")
              ELSE to_ordinal_num(l, n)
         [] out = "Year" -> to_year(l, n)

\* Num2Words::to_words
to_words(n, lang, out, cur, preferences) ==
    LET l == to_language(lang, preferences)
    IN CASE out = "Cardinal" -> to_cardinal(l, n)
         [] out = "Currency" -> to_currency(l, n, cur)
         [] out = "Ordinal" ->
              IF is_inf(n) THEN Err("InfiniteOrdinal")
              ELSE IF ~is_zero(frac(n)) THEN Err("FloatingOrdinal")
              ELSE IF is_negative(n) THEN Err("NegativeOrdinal")
              ELSE to_ordinal(l, n)
         [] out = "OrdinalNum" ->
              IF is_inf(n) THEN Err("InfiniteOrdinal")
              ELSE IF ~is_zero(frac(n)) THEN Err("FloatingOrdinal")
              ELSE IF is_negative(n) THEN Err("NegativeOrdinal")
              ELSE to_ordinal_num(l, n)
         [] out = "Year" ->
              IF is_inf(n) THEN Err("InfiniteYear")
              ELSE IF ~is_zero(frac(n)) THEN Err("FloatingYear")
              ELSE to_year(l, n)

\* ------------------------------------------------------------------------
\* Inputs of the model
\* ------------------------------------------------------------------------

\* the largest number of preference strings of a request
MaxPrefs == 1

\* the largest k of an input 1000^k
MaxScale == 34

\* the preference strings a request is given
Prefs == {"oh", "nil", "f", "reformed", "gen", "acc", "pl"}

\* (-1)^neg * m * 10^e
Dec(neg, m, e) == Norm(neg, m, e)

\* small integers, both signs
SmallInts ==
    {FromInt(i) : i \in {0, 1, 2, 3, 10, 11, 12, 13, 21, 22, 23, 42, 70, 71, 73, 80, 100,
                         101, 102, 111, 112, 113, 200, 1000, 1001, 1901, 1990,
                         2001, 5500, 100001, 1000001, 1001000, -1, -2, -10, -44, -1000}}

\* non-integers, both signs
Fractions ==
    {Dec(s, mant, 0 - d) : s \in BOOLEAN, mant \in {5, 15}, d \in {1}}
    \cup {Dec(s, mant, 0 - 2) : s \in BOOLEAN, mant \in {1, 20, 101, 150, 4201}}
    \cup {Dec(FALSE, mant, 0 - 2) : mant \in {205, 1251}}
    \cup {Dec(FALSE, mant, 0 - 3) : mant \in {1, 5, 999, 1001, 1005, 2995}}

\* 1000^k and numbers around the limits of the scale tables and of the
\* machine integers
Scales ==
    {Dec(FALSE, 1, 3 * k) : k \in 1..MaxScale}
    \cup {Dec(FALSE, 999, 63), Dec(FALSE, 2, 66), Dec(FALSE, 5, 98), Dec(FALSE, 1, 100),
          Dec(FALSE, 3, 38), Dec(FALSE, 5, 38), Dec(FALSE, 1, 21), Dec(TRUE, 1, 66),
          Dec(FALSE, 1, 11), Dec(FALSE, 38, 12)}

Nums == SmallInts \cup Fractions \cup Scales \cup {PosInf, NegInf}

\* ------------------------------------------------------------------------
\* The state machine: one request, built and then rendered
\* ------------------------------------------------------------------------

\* the five fields of the request, the result of rendering it, and (for the
\* specification Calls below) the last application of a function
VARIABLES num, lang, output, currency, preferences, result, applied

vars == <<num, lang, output, currency, preferences, result, applied>>

\* no function has been applied
NoCall == [op |-> "none"]

\* Num2Words::new
Init ==
    /\ num \in Nums
    /\ lang = "English"
    /\ output = "Cardinal"
    /\ currency = "DOLLAR"
    /\ preferences = <<>>
    /\ result = NoResult
    /\ applied = NoCall

\* Num2Words::lang
SetLang(l) ==
    /\ result = NoResult
    /\ lang' = l
    /\ UNCHANGED <<num, output, currency, preferences, result, applied>>

\* Num2Words::cardinal
SetCardinal ==
    /\ result = NoResult
    /\ output' = "Cardinal"
    /\ UNCHANGED <<num, lang, currency, preferences, result, applied>>

\* Num2Words::ordinal
SetOrdinal ==
    /\ result = NoResult
    /\ output' = "Ordinal"
    /\ UNCHANGED <<num, lang, currency, preferences, result, applied>>

\* Num2Words::ordinal_num
SetOrdinalNum ==
    /\ result = NoResult
    /\ output' = "OrdinalNum"
    /\ UNCHANGED <<num, lang, currency, preferences, result, applied>>

\* Num2Words::year
SetYear ==
    /\ result = NoResult
    /\ output' = "Year"
    /\ UNCHANGED <<num, lang, currency, preferences, result, applied>>

\* Num2Words::currency
SetCurrency(c) ==
    /\ result = NoResult
    /\ output' = "Currency"
    /\ currency' = c
    /\ UNCHANGED <<num, lang, preferences, result, applied>>

\* Num2Words::prefer
Prefer(p) ==
    /\ result = NoResult
    /\ Len(preferences) < MaxPrefs
    /\ preferences' = Append(preferences, p)
    /\ UNCHANGED <<num, lang, output, currency, result, applied>>

\* Num2Words::to_words: consumes the request
ToWords ==
    /\ result = NoResult
    /\ result' = to_words(num, lang, output, currency, preferences)
    /\ UNCHANGED <<num, lang, output, currency, preferences, applied>>

Next ==
    \/ \E l \in Langs : SetLang(l)
    \/ SetCardinal
    \/ SetOrdinal
    \/ SetOrdinalNum
    \/ SetYear
    \/ \E c \in Currencies : SetCurrency(c)
    \/ \E p \in Prefs : Prefer(p)
    \/ ToWords

Spec == Init /\ [][Next]_vars

\* ------------------------------------------------------------------------
\* The constructors and two functions of the renderers, applied alone: the
\* specification Calls applies one of them to an input and records the
\* application (the request of the main machine is left as it is built)
\* ------------------------------------------------------------------------

\* the value a machine float that is not a number converts to
NaN == [inf |-> FALSE, neg |-> FALSE, m |-> 0, e |-> 0, nan |-> TRUE]

\* x.is_nan()
is_nan(x) == "nan" \in DOMAIN x

\* Option
None == <<"None">>
Some(v) == <<"Some", v>>

\* the numbers a caller hands to Num2Words::new: those of the model and the
\* float that is not a number
MachineNumbers == Nums \cup {NaN}

\* the strings a caller hands to Num2Words::parse
ParseStrings == {"42", "1e3", "12.51", "inf", "-inf", "NAN", "not a number", ""}

\* BigFloat::parse(s): the set of the outcomes the numeric type can give.  A
\* string that is no number gives None or Some of the value that is not a
\* number: Num2Words::parse handles both.
BigFloat_parse(s) ==
    CASE s = "42" -> {Some(FromInt(42))}
      [] s = "1e3" -> {Some(FromInt(1000))}
      [] s = "12.51" -> {Some(Norm(FALSE, 1251, 0 - 2))}
      [] s = "inf" -> {Some(PosInf)}
      [] s = "-inf" -> {Some(NegInf)}
      [] OTHER -> {None, Some(NaN)}

\* Num2Words::new: num.into() keeps the value
Num2Words_new(n) ==
    [num |-> n, lang |-> "English", output |-> "Cardinal",
     currency |-> "DOLLAR", preferences |-> <<>>]

\* Num2Words::parse, of the outcome of BigFloat::parse
Num2Words_parse(parsed) ==
    IF parsed = None THEN None
    ELSE IF is_nan(parsed[2]) THEN None
    ELSE Some([num |-> parsed[2], lang |-> "English", output |-> "Cardinal",
               currency |-> "DOLLAR", preferences |-> <<>>])

\* the grammatical profiles of a Ukrainian renderer
Profiles ==
    {Ukrainian_new(g, n, d) :
       g \in {"Masculine", "Feminine", "Neuter"},
       n \in {"Singular", "Plural"},
       d \in {"Nominative", "Genitive", "Dative", "Accusative", "Instrumental",
              "Locative"}}

\* the magnitudes handed to split_thousands: the non-negative integers of
\* the model and some more
Magnitudes ==
    {n \in Nums : ~n.inf /\ ~n.neg /\ (n.m = 0 \/ n.e >= 0)}
    \cup {FromInt(i) : i \in {999, 999999, 1000000, 123456789, 20030}}

CallsInit ==
    /\ num = FromInt(0)
    /\ lang = "English"
    /\ output = "Cardinal"
    /\ currency = "DOLLAR"
    /\ preferences = <<>>
    /\ result = NoResult
    /\ applied = NoCall

\* Num2Words::new(n)
ApplyNew(n) ==
    /\ applied = NoCall
    /\ applied' = [op |-> "new", arg |-> n, ret |-> Num2Words_new(n)]
    /\ UNCHANGED <<num, lang, output, currency, preferences, result>>

\* Num2Words::parse(s), BigFloat::parse giving the outcome parsed
ApplyParse(s, parsed) ==
    /\ applied = NoCall
    /\ applied' = [op |-> "parse", arg |-> s, ret |-> Num2Words_parse(parsed)]
    /\ UNCHANGED <<num, lang, output, currency, preferences, result>>

\* self.agreement_with_units(tens, units)
ApplyAgreement(self, tens, units) ==
    /\ applied = NoCall
    /\ applied' = [op |-> "agreement_with_units", self |-> self, tens |-> tens,
                   units |-> units, ret |-> agreement_with_units(self, tens, units)]
    /\ UNCHANGED <<num, lang, output, currency, preferences, result>>

\* self.split_thousands(n)
ApplySplit(n) ==
    /\ applied = NoCall
    /\ applied' = [op |-> "split_thousands", arg |-> n, ret |-> split_thousands(n)]
    /\ UNCHANGED <<num, lang, output, currency, preferences, result>>

\* the largest number of prefer() calls before a renderer is configured
MaxCallPrefs == 3

\* the strings given to prefer(): of each kind, and of none
CallPrefs == {"oh", "nil", "f", "m", "n", "pl", "sing", "gen", "nom", "1990"}

\* the preference vectors prefer() builds
PreferenceVectors == UNION {[1..k -> CallPrefs] : k \in 0..MaxCallPrefs}

\* to_language(lang, preferences), as to_words calls it
ApplyLanguage(l, prefs) ==
    /\ applied = NoCall
    /\ applied' = [op |-> "to_language", lang |-> l, prefs |-> prefs,
                   ret |-> to_language(l, prefs)]
    /\ UNCHANGED <<num, lang, output, currency, preferences, result>>

CallsNext ==
    \/ \E n \in MachineNumbers : ApplyNew(n)
    \/ \E l \in Langs : \E prefs \in PreferenceVectors : ApplyLanguage(l, prefs)
    \/ \E s \in ParseStrings : \E parsed \in BigFloat_parse(s) : ApplyParse(s, parsed)
    \/ \E self \in Profiles : \E tens \in 0..9 : \E units \in 0..9 :
          ApplyAgreement(self, tens, units)
    \/ \E n \in Magnitudes : ApplySplit(n)

Calls == CallsInit /\ [][CallsNext]_vars

\* ------------------------------------------------------------------------
\* Properties
\* ------------------------------------------------------------------------

\* the request has been rendered
Done == result # NoResult

\* n is a finite integer: no mantissa digit lies below the decimal point
IsInteger(n) == ~n.inf /\ (n.m = 0 \/ n.e >= 0)

\* index of the most significant nonzero base-1000 triplet of an integer n # 0
MsbIndex(n) == (NumDigits(n.m) + n.e - 1) \div 3

\* number of scale words the claims give for a language
ScaleWords(l) == IF l \in {"English", "Ukrainian"} THEN 21 ELSE 33

\* the text s begins with the text p
StartsWith(s, p) == Len(s) >= Len(p) /\ SubSeq(s, 1, Len(p)) = p

\* n = 1000^k
IsScale(n, k) == ~n.inf /\ ~n.neg /\ n.m = 1 /\ n.e = 3 * k

\* C1: with output ordinal or ordinal_num, to_words returns InfiniteOrdinal
\* for both infinities, FloatingOrdinal for every finite non-integer whatever
\* its sign, NegativeOrdinal for every negative integer, and only a finite
\* non-negative integer reaches the renderer of the language, whose result
\* is returned as it is.
C1_OrdinalGuards ==
    (Done /\ output \in {"Ordinal", "OrdinalNum"}) =>
        /\ num.inf => result = Err("InfiniteOrdinal")
        /\ (~num.inf /\ ~IsInteger(num)) => result = Err("FloatingOrdinal")
        /\ (IsInteger(num) /\ num.neg) => result = Err("NegativeOrdinal")
        /\ (IsInteger(num) /\ ~num.neg) =>
              /\ result \notin {Err("InfiniteOrdinal"), Err("FloatingOrdinal"),
                                Err("NegativeOrdinal")}
              /\ result = IF output = "Ordinal"
                          THEN to_ordinal(to_language(lang, preferences), num)
                          ELSE to_ordinal_num(to_language(lang, preferences), num)

\* an ordinal of a negative non-integer was refused as a non-integer
C1_Witness ==
    /\ output = "Ordinal"
    /\ lang = "Ukrainian"
    /\ num = Dec(TRUE, 15, 0 - 1)
    /\ result = Err("FloatingOrdinal")

\* C2: a year of a finite non-integer is refused with FloatingYear and a year
\* of an infinity with InfiniteYear, in every language: no other error and
\* no text.
C2_YearGuards ==
    (Done /\ output = "Year") =>
        /\ (~num.inf /\ ~IsInteger(num)) => result = Err("FloatingYear")
        /\ num.inf => result = Err("InfiniteYear")

\* a Ukrainian year of a non-integer was refused with FloatingYear
C2_Witness ==
    /\ output = "Year"
    /\ lang = "Ukrainian"
    /\ num = Dec(FALSE, 4201, 0 - 2)
    /\ result = Err("FloatingYear")

\* C3: the cardinal of an integer n # 0 is Err(CannotConvert) exactly when
\* the index of the most significant nonzero triplet of n exceeds the number
\* of scale words of the language (21 English and Ukrainian, 33 French);
\* otherwise it is Ok with a text, and the text of 1000^k carries the k-th
\* scale word: "one" and the word in English, the bare word in French, the
\* word's base after the word for one in Ukrainian.
C3_ScaleCeiling ==
    (Done /\ output = "Cardinal" /\ IsInteger(num) /\ num.m # 0) =>
        /\ (result = Err("CannotConvert")) <=> (MsbIndex(num) > ScaleWords(lang))
        /\ MsbIndex(num) <= ScaleWords(lang) => IsOk(result) /\ result[2] # ""
        /\ \A k \in 1..ScaleWords(lang) :
              IsScale(num, k) =>
                 CASE lang = "English" -> result = Ok("one " \o EN_MEGAS[k])
                   [] lang = "Ukrainian" ->
                        /\ IsOk(result)
                        /\ Len(split_whitespace(result[2])) = 2
                        /\ StartsWith(split_whitespace(result[2])[2], UK_MEGA_BASES[k])
                   [] OTHER -> result = Ok(FR_MEGAS[k])

\* the largest power of 1000 English names was rendered, and so was the
\* refusal of an integer French cannot name
C3_Witness ==
    /\ output = "Cardinal"
    /\ \/ lang = "English" /\ IsScale(num, 21) /\ result = Ok("one vigintillion")
       \/ lang = "French" /\ IsScale(num, 34) /\ result = Err("CannotConvert")

\* C4: for a non-negative integer above the scale table of the language, the
\* ordinal, the year and the currency rendering all return
\* Err(CannotConvert), as the cardinal does.
C4_CeilingEverywhere ==
    (/\ Done
     /\ output \in {"Ordinal", "Year", "Currency"}
     /\ IsInteger(num) /\ num.m # 0 /\ ~num.neg
     /\ MsbIndex(num) > ScaleWords(lang)) => result = Err("CannotConvert")

\* an English year above the scale table ended in a panic
C4_Witness ==
    /\ output = "Year"
    /\ lang = "English"
    /\ IsScale(num, 22)
    /\ result = Panic

\* C5: the cardinal of 0 is the zero word of the language and nothing else:
\* English zero, or oh / nil by the last such preference; French zéro;
\* Ukrainian the form of the case the last case preference selects.  It is
\* one word, never empty.
C5_ZeroWord ==
    (Done /\ output = "Cardinal" /\ ~num.inf /\ num.m = 0) =>
        /\ IsOk(result)
        /\ result[2] # ""
        /\ ~contains(result[2], " ")
        /\ result[2] =
             CASE lang = "English" ->
                    LET picks == SelectSeq(preferences, LAMBDA v : v \in {"oh", "nil"})
                    IN IF picks = <<>> THEN "zero" ELSE picks[Len(picks)]
               [] lang = "Ukrainian" ->
                    LET cases == SelectSeq(preferences, LAMBDA v : v \in {"gen", "acc"})
                    IN IF cases # <<>> /\ cases[Len(cases)] = "gen"
                       THEN "nulA" ELSE "nulq"
               [] OTHER -> "zéro"

\* zero was rendered in English under the nil preference
C5_Witness ==
    /\ output = "Cardinal"
    /\ lang = "English"
    /\ num = FromInt(0)
    /\ preferences # <<>>
    /\ preferences[Len(preferences)] = "nil"
    /\ result = Ok("nil")

\* the minus word of a language
MinusWord(l) ==
    CASE l = "English" -> "minus" [] l = "Ukrainian" -> "minus" [] OTHER -> "moins"

\* C6: for an integer N > 0 within the scale range, the cardinal of -N is the
\* minus word of the language, one space, and the cardinal of N under the
\* same preferences.
C6_SignPrefix ==
    (/\ Done
     /\ output = "Cardinal"
     /\ IsInteger(num) /\ num.neg
     /\ MsbIndex(num) <= ScaleWords(lang)) =>
        LET positive == to_cardinal(to_language(lang, preferences), Negate(num))
        IN /\ IsOk(positive)
           /\ result = Ok(MinusWord(lang) \o " " \o positive[2])

\* reformed French joined the minus word to the number with a hyphen
C6_Witness ==
    /\ output = "Cardinal"
    /\ lang = "French"
    /\ preferences = <<"reformed">>
    /\ num = FromInt(0 - 10)
    /\ result = Ok("moins-dix")

\* N mod 100 of a non-negative integer, from its digits
Mod100(n) ==
    IF n.e >= 2 THEN 0 ELSE IF n.e = 1 THEN (n.m % 10) * 10 ELSE n.m % 100

\* the suffix the claim gives for a remainder of N by 100
SuffixOf(r) ==
    IF r \in {11, 12, 13} THEN "th"
    ELSE IF r % 10 = 1 THEN "st"
    ELSE IF r % 10 = 2 THEN "nd"
    ELSE IF r % 10 = 3 THEN "rd"
    ELSE "th"

\* the decimal digits of a non-negative integer: those of m, then e zeros
Digits(n) == NatStr(n.m) \o Zeros(n.e)

\* C7: English ordinal_num of every non-negative integer N is the decimal
\* digits of N and the suffix chosen from N mod 100.
C7_OrdinalNumSuffix ==
    (/\ Done
     /\ output = "OrdinalNum"
     /\ lang = "English"
     /\ IsInteger(num) /\ ~num.neg) =>
        result = Ok(Digits(num) \o SuffixOf(Mod100(num)))

\* English ordinal_num of 10^39 ended in a panic
C7_Witness ==
    /\ output = "OrdinalNum"
    /\ lang = "English"
    /\ num = Dec(FALSE, 1, 39)
    /\ result = Panic

\* the major-unit name of a currency in English and French: <<singular, plural>>
MajorNames(cur) ==
    IF cur = "UAH" THEN <<"hryvnia", "hryvnias">> ELSE <<"dollar", "dollars">>

\* the minor-unit name of a currency: <<singular, plural>>
MinorNames(l, cur) ==
    IF l = "English"
    THEN (IF cur = "UAH" THEN <<"kopiyok", "kopiyoks">> ELSE <<"cent", "cents">>)
    ELSE (IF cur = "UAH" THEN <<"kopeck", "kopecks">> ELSE <<"centime", "centimes">>)

\* the hundredths of a finite amount that the renderers count, without sign:
\* the last two digits of the integral part of 100 times the amount
Hundredths(n) ==
    IF n.e >= 0 THEN 0
    ELSE IF n.e = 0 - 1 THEN (n.m * 10) % 100
    ELSE (n.m \div Pow10(0 - (n.e + 2))) % 100

\* the magnitude of the integral part of a finite amount below 10^9
Integral(n) == IF n.e >= 0 THEN n.m * Pow10(n.e) ELSE n.m \div Pow10(0 - n.e)

\* the amounts of the currency claims: finite, integral part below 10^9
SmallAmount(n) == ~n.inf /\ NumDigits(n.m) + n.e <= 9

\* the words of a text
WordsOf(text) == split_whitespace(text)

\* the word w occurs in the text
HasWord(text, w) == \E j \in 1..Len(WordsOf(text)) : WordsOf(text)[j] = w

\* C8: in an English or French currency text of a finite amount, positive or
\* negative, the major-unit name is singular exactly when the magnitude of
\* the integral part is 1 and the minor-unit name is singular exactly when
\* the magnitude of the subunit count is 1; the amount 0 takes the plural
\* major-unit name.
C8_Pluralization ==
    (/\ Done
     /\ output = "Currency"
     /\ lang # "Ukrainian"
     /\ SmallAmount(num)
     /\ IsOk(result)) =>
        /\ HasWord(result[2], MajorNames(currency)[1]) => Integral(num) = 1
        /\ HasWord(result[2], MajorNames(currency)[2]) => Integral(num) # 1
        /\ HasWord(result[2], MinorNames(lang, currency)[1]) => Hundredths(num) = 1
        /\ HasWord(result[2], MinorNames(lang, currency)[2]) => Hundredths(num) # 1
        /\ num.m = 0 => HasWord(result[2], MajorNames(currency)[2])

\* minus one dollar was rendered with the plural name
C8_Witness ==
    /\ output = "Currency"
    /\ lang = "English"
    /\ currency = "DOLLAR"
    /\ num = FromInt(0 - 1)
    /\ result = Ok("minus one dollars")

\* 100 times a finite amount, rounded half up to an integer, modulo 100
RoundedHundredths(n) ==
    IF n.e >= 0 - 2 THEN Hundredths(n)
    ELSE LET unit == Pow10(0 - (n.e + 2))
         IN ((n.m \div unit) + (IF 2 * (n.m % unit) >= unit THEN 1 ELSE 0)) % 100

\* C9: the currency text of a finite positive non-integer amount counts
\* round-half-up(100 * amount) mod 100 subunits: it is the text of the
\* amount made of the same integral part and that many hundredths.
C9_RoundHalfUp ==
    (/\ Done
     /\ output = "Currency"
     /\ SmallAmount(num) /\ ~IsInteger(num) /\ ~num.neg) =>
        result = to_currency(to_language(lang, preferences),
                             Dec(FALSE, 100 * Integral(num) + RoundedHundredths(num), 0 - 2),
                             currency)

\* 1.005 was rendered without its rounded cent
C9_Witness ==
    /\ output = "Currency"
    /\ lang = "English"
    /\ currency = "DOLLAR"
    /\ num = Dec(FALSE, 1005, 0 - 3)
    /\ result = Ok("one dollar")

\* the integral part of an amount and its counted hundredths, with its sign
SignedInt(n) == Dec(n.neg, Integral(n), 0)
SignedHundredths(n) == Dec(n.neg, Hundredths(n), 0)

\* C10: an English or French currency text of a finite amount with integral
\* part I and subunit count c (the hundredths the renderer counts) is
\* "cardinal(I) major" when the fractional part is zero, "cardinal(c) minor"
\* when I = 0 and c # 0, and "phrase(I) and cardinal(c) minor" (et in
\* French) when both are nonzero, phrase(I) being the currency text of I;
\* major and minor are the names of the currency's units in the language,
\* in either number.
C10_CurrencyShape ==
    (/\ Done
     /\ output = "Currency"
     /\ lang # "Ukrainian"
     /\ SmallAmount(num)) =>
        LET l == to_language(lang, preferences)
            I == SignedInt(num)
            c == SignedHundredths(num)
            and == IF lang = "English" THEN " and " ELSE " et "
            major == IF lang = "English"
                     THEN {English_currencies(l.self, currency, b) : b \in BOOLEAN}
                     ELSE {French_currencies(l.self, currency, b) : b \in BOOLEAN}
            minor == IF lang = "English"
                     THEN {English_cents(l.self, currency, b) : b \in BOOLEAN}
                     ELSE {French_cents(l.self, currency, b) : b \in BOOLEAN}
        IN /\ IsInteger(num) =>
                \E w \in major : result = Ok(to_cardinal(l, I)[2] \o " " \o w)
           /\ (num.m = 0) => result \in {Ok("zero dollars"), Ok("zero hryvnias"),
                                         Ok("oh dollars"), Ok("oh hryvnias"),
                                         Ok("nil dollars"), Ok("nil hryvnias"),
                                         Ok("zéro dollars"), Ok("zéro hryvnias")}
           /\ (I.m = 0 /\ c.m # 0) =>
                \E w \in minor : result = Ok(to_cardinal(l, c)[2] \o " " \o w)
           /\ (I.m # 0 /\ c.m # 0) =>
                \E w \in minor :
                   result = Ok(to_currency(l, I, currency)[2] \o and
                               \o to_cardinal(l, c)[2] \o " " \o w)

\* an amount with both parts was rendered with the conjunction
C10_Witness ==
    /\ output = "Currency"
    /\ lang = "French"
    /\ currency = "DOLLAR"
    /\ num = Dec(FALSE, 4201, 0 - 2)
    /\ result = Ok("quarante-deux dollars et un centime")

\* the case a Ukrainian request selects: that of its last preference naming
\* a case, the nominative without one
SelectedCase(prefs) == find_map_last(prefs, "Declination", "Nominative")

\* the plural forms of a currency's name in Ukrainian, by case
UkPluralNames(cur) ==
    IF cur = "UAH" THEN UK_HRYVNIAS[2]
    ELSE [d \in 1..6 |-> "dolar" \o UK_NOUN_2ST_GROUP_HARD_DECLINATIONS[2][d]]

\* the sign prefix of an infinite amount
InfinitePrefix(n, l) == IF n.neg THEN MinusWord(l) \o " " ELSE ""

\* C11: the currency text of an infinite amount is Ok and a fixed phrase with
\* the plural currency name: English "an infinity of <plural>", French "une
\* infinité de <plural>", Ukrainian the infinity word in the selected case
\* and the genitive plural of the currency name; negative infinity puts the
\* minus word of the language and a space before it.
C11_InfiniteCurrency ==
    (Done /\ output = "Currency" /\ num.inf) =>
        result = Ok(InfinitePrefix(num, lang) \o
                    CASE lang = "English" -> "an infinity of " \o MajorNames(currency)[2]
                      [] lang = "Ukrainian" ->
                           UK_INFINITY[Declination_index(SelectedCase(preferences))]
                           \o " " \o UkPluralNames(currency)[Declination_index("Genitive")]
                      [] OTHER -> "une infinité de " \o MajorNames(currency)[2])

\* C11 as amended: the same, the Ukrainian currency name being the plural in
\* the genitive when the selected case is the nominative and the plural in
\* the selected case otherwise.
C11_InfiniteCurrencyAgreed ==
    (Done /\ output = "Currency" /\ num.inf) =>
        result = Ok(InfinitePrefix(num, lang) \o
                    CASE lang = "English" -> "an infinity of " \o MajorNames(currency)[2]
                      [] lang = "Ukrainian" ->
                           UK_INFINITY[Declination_index(SelectedCase(preferences))]
                           \o " " \o UkPluralNames(currency)[
                                       IF SelectedCase(preferences) = "Nominative"
                                       THEN Declination_index("Genitive")
                                       ELSE Declination_index(SelectedCase(preferences))]
                      [] OTHER -> "une infinité de " \o MajorNames(currency)[2])

\* minus infinity of hryvnias was rendered in the accusative
C11_Witness ==
    /\ output = "Currency"
    /\ lang = "Ukrainian"
    /\ currency = "UAH"
    /\ num = NegInf
    /\ preferences = <<"acc">>
    /\ result = Ok("minus neskinCennistq hryvni")

\* the English cardinal text of a non-negative integer under the preferences
\* of the request
EnCardinal(x) == to_cardinal(to_language("English", preferences), x)

\* the text the claim gives for the English year of magnitude y = 100 h + l
\* (y below 10^9, as the integers h and l)
EnYearSplit(y, h, l) ==
    IF h = 0 \/ (h % 10 = 0 /\ l < 10) \/ h >= 100 THEN EnCardinal(y)[2]
    ELSE EnCardinal(FromInt(h))[2] \o " "
         \o (IF l = 0 THEN "hundred"
             ELSE IF l < 10 THEN "oh-" \o EnCardinal(FromInt(l))[2]
             ELSE EnCardinal(FromInt(l))[2])

\* the text the claim gives for the English year of magnitude y: above 10^9
\* the high part is above 100
EnYearText(y) ==
    IF SmallAmount(y) THEN EnYearSplit(y, Integral(y) \div 100, Integral(y) % 100)
    ELSE EnCardinal(y)[2]

\* C12: the English year of an integer y whose magnitude English names is
\* the cardinal of |y| when high = 0, or high is a multiple of 10 and
\* low < 10, or high >= 100, and otherwise the cardinal of high, a space and
\* "hundred" (low = 0), "oh-" and the cardinal of low (low in 1..9) or the
\* cardinal of low; a negative y has the era marker after it.
C12_EnglishYear ==
    (/\ Done
     /\ output = "Year"
     /\ lang = "English"
     /\ IsInteger(num)
     /\ IsOk(EnCardinal(Abs(num)))) =>
        result = Ok(EnYearText(Abs(num)) \o (IF num.neg THEN " BC" ELSE ""))

\* the English year 10^21, which the cardinal names, ended in a panic
C12_Witness ==
    /\ output = "Year"
    /\ lang = "English"
    /\ num = Dec(FALSE, 1, 21)
    /\ EnCardinal(num) = Ok("one sextillion")
    /\ result = Panic

\* the era marker of a language
EraMarker(l) ==
    CASE l = "English" -> " BC" [] l = "Ukrainian" -> " do n.e." [] OTHER -> " avant JC"

\* the text s ends with the text p
EndsWith(s, p) == Len(s) >= Len(p) /\ SubSeq(s, Len(s) - Len(p) + 1, Len(s)) = p

\* C13: in every language the year text of an integer y ends with the era
\* marker of the language exactly when y is negative (never for y = 0), and
\* the year text of a negative y is the year text of -y followed by the
\* marker.
C13_EraMarker ==
    (Done /\ output = "Year" /\ IsInteger(num) /\ IsOk(result)) =>
        /\ EndsWith(result[2], EraMarker(lang)) <=> num.neg
        /\ num.neg =>
             LET positive == to_year(to_language(lang, preferences), Negate(num))
             IN IsOk(positive) /\ result = Ok(positive[2] \o EraMarker(lang))

\* the Ukrainian year 0 was rendered with the era marker
C13_Witness ==
    /\ output = "Year"
    /\ lang = "Ukrainian"
    /\ num = FromInt(0)
    /\ preferences = <<>>
    /\ result = Ok("nulqovyj rik do n.e.")

\* the ordinal form the claim gives for an English number word
OrdinalWord(p) ==
    CASE p = "one" -> "first" [] p = "two" -> "second" [] p = "three" -> "third"
      [] p = "four" -> "fourth" [] p = "five" -> "fifth" [] p = "six" -> "sixth"
      [] p = "seven" -> "seventh" [] p = "eight" -> "eighth" [] p = "nine" -> "ninth"
      [] p = "ten" -> "tenth" [] p = "eleven" -> "eleventh" [] p = "twelve" -> "twelfth"
      [] OTHER -> IF EndsWith(p, "y") THEN SubSeq(p, 1, Len(p) - 1) \o "ieth"
                  ELSE p \o "th"

\* the last word of an English cardinal made ordinal: with a hyphen, only
\* the part after it is transformed
OrdinalOfLast(w) ==
    IF \E i \in 1..Len(w) : SubSeq(w, i, i) = "-"
    THEN LET i == CHOOSE i \in 1..Len(w) : SubSeq(w, i, i) = "-"
         IN SubSeq(w, 1, i) \o OrdinalWord(SubSeq(w, i + 1, Len(w)))
    ELSE OrdinalWord(w)

\* C14: the English ordinal of a non-negative integer the cardinal names is
\* the cardinal text with every word but the last unchanged and the last
\* word made ordinal (after its hyphen when it has one): 21 is
\* "twenty-first", 102 "one hundred second", 73 "seventy-third".
C14_EnglishOrdinal ==
    (/\ Done
     /\ output = "Ordinal"
     /\ lang = "English"
     /\ IsInteger(num) /\ ~num.neg
     /\ IsOk(EnCardinal(num))) =>
        LET ws == WordsOf(EnCardinal(num)[2])
            rs == WordsOf(result[2])
        IN /\ IsOk(result)
           /\ result[2] = Join(rs, " ")
           /\ Len(rs) = Len(ws)
           /\ \A j \in 1..(Len(ws) - 1) : rs[j] = ws[j]
           /\ rs[Len(rs)] = OrdinalOfLast(ws[Len(ws)])
           /\ num = FromInt(21) => result = Ok("twenty-first")
           /\ num = FromInt(102) => result = Ok("one hundred second")
           /\ num = FromInt(73) => result = Ok("seventy-third")

\* the ordinal of 73 was rendered
C14_Witness ==
    /\ output = "Ordinal"
    /\ lang = "English"
    /\ num = FromInt(73)
    /\ result = Ok("seventy-third")

\* the preference oh is the one selected: the last of oh and nil
OhSelected(prefs) ==
    LET picks == SelectSeq(prefs, LAMBDA v : v \in {"oh", "nil"})
    IN picks # <<>> /\ picks[Len(picks)] = "oh"

\* the word of the j-th of the k decimal digits of a non-integer n
DigitWord(n, j, oh) ==
    LET d == (n.m \div Pow10((0 - n.e) - j)) % 10
    IN IF d = 0 THEN (IF oh THEN "oh" ELSE "zero") ELSE EN_UNITS[d]

\* C15: the English cardinal of a positive finite non-integer with integral
\* part I and the k decimal digits d1..dk is the cardinal of I (nothing when
\* I = 0), "point", and one word for each of the k digits in order, a zero
\* digit being "oh" under the oh preference and "zero" otherwise, also under
\* nil: 12.51 is "twelve point five one", 0.005 under oh "point oh oh five",
\* 2.05 under nil "two point zero five".
C15_EnglishDecimals ==
    (/\ Done
     /\ output = "Cardinal"
     /\ lang = "English"
     /\ ~num.inf /\ ~IsInteger(num) /\ ~num.neg) =>
        /\ result =
             Ok(Join((IF Integral(num) = 0 THEN <<>>
                      ELSE <<EnCardinal(FromInt(Integral(num)))[2]>>)
                     \o <<"point">>
                     \o [j \in 1..(0 - num.e) |->
                           DigitWord(num, j, OhSelected(preferences))], " "))
        /\ (num = Dec(FALSE, 1251, 0 - 2) /\ preferences = <<>>) =>
              result = Ok("twelve point five one")
        /\ (num = Dec(FALSE, 5, 0 - 3) /\ preferences = <<"oh">>) =>
              result = Ok("point oh oh five")
        /\ (num = Dec(FALSE, 205, 0 - 2) /\ preferences = <<"nil">>) =>
              result = Ok("two point zero five")

\* 2.05 was rendered under the nil preference
C15_Witness ==
    /\ output = "Cardinal"
    /\ lang = "English"
    /\ num = Dec(FALSE, 205, 0 - 2)
    /\ preferences = <<"nil">>
    /\ result = Ok("two point zero five")

\* C16: agreement_with_units(tens, units) of a profile (g, n, c) is plural,
\* in the genitive if c is the nominative and in c otherwise, when
\* units = 0 or units > 4 or tens = 1; singular in c when units = 1 and
\* tens # 1; plural in c when units is 2, 3 or 4 and tens # 1; the gender is
\* g in every branch.
C16_Agreement ==
    (applied.op = "agreement_with_units") =>
        LET g == applied.self.gender
            c == applied.self.declination
            t == applied.tens
            u == applied.units
            r == applied.ret
        IN /\ r.gender = g
           /\ DOMAIN r = DOMAIN applied.self
           /\ (u = 0 \/ u > 4 \/ t = 1) =>
                /\ r.number = "Plural"
                /\ r.declination = IF c = "Nominative" THEN "Genitive" ELSE c
           /\ (u = 1 /\ t # 1) => r.number = "Singular" /\ r.declination = c
           /\ (u \in {2, 3, 4} /\ t # 1) => r.number = "Plural" /\ r.declination = c

\* a plural nominative profile was agreed with 11: plural, genitive
C16_Witness ==
    /\ applied.op = "agreement_with_units"
    /\ applied.self = Ukrainian_new("Feminine", "Plural", "Nominative")
    /\ applied.tens = 1
    /\ applied.units = 1
    /\ applied.ret = Ukrainian_new("Feminine", "Plural", "Genitive")

\* C17: the value a request holds is never the value that is not a number,
\* whichever constructor built it: parse returns None for "NAN" and for a
\* string that is no number, and neither parse nor new returns a request
\* holding that value.
C17_NeverNaN ==
    /\ (applied.op = "new") => ~is_nan(applied.ret.num)
    /\ (applied.op = "parse") =>
          /\ applied.arg \in {"NAN", "not a number", ""} => applied.ret = None
          /\ applied.ret # None => ~is_nan(applied.ret[2].num)

\* new built a request from the float that is not a number
C17_Witness ==
    /\ applied.op = "new"
    /\ is_nan(applied.arg)
    /\ is_nan(applied.ret.num)

LowTensUnits(n) == IF n.e >= 2 THEN 0 ELSE (n.m * Pow10(n.e)) % 100

\* some triplet above the least significant one is nonzero
HasHigherTriplet(n) == NumDigits(n.m) + n.e > 3

\* C19: the English cardinal of a positive integer has the word "and"
\* immediately before the tens/units word of the least significant triplet
\* exactly when that part is nonzero and some higher triplet is nonzero
\* (100001, 1000001 and 2001 have it); "and" stands nowhere else and at
\* most once.
C19_EnglishAnd ==
    (/\ Done
     /\ output = "Cardinal"
     /\ lang = "English"
     /\ IsInteger(num) /\ ~num.neg /\ ~is_zero(num)
     /\ IsOk(result)) =>
        LET ws == WordsOf(result[2])
            ands == {j \in 1..Len(WordsOf(result[2])) : WordsOf(result[2])[j] = "and"}
        IN /\ Cardinality(ands) <= 1
           /\ (ands # {}) <=> (LowTensUnits(num) # 0 /\ HasHigherTriplet(num))
           /\ (ands # {}) => ands = {Len(ws) - 1}

\* 100001 was rendered: its thousands triplet has hundreds only
C19_Witness ==
    /\ output = "Cardinal"
    /\ lang = "English"
    /\ num = FromInt(100001)
    /\ result = Ok("one hundred thousand one")

\* the decimal digit of weight 10^p of the non-negative integer n
DecimalDigit(n, p) ==
    IF p < n.e \/ p - n.e >= NumDigits(n.m) THEN 0
    ELSE (n.m \div Pow10(p - n.e)) % 10

\* the base-1000 digit of weight 1000^(i-1) of the non-negative integer n
Base1000Digit(n, i) ==
    DecimalDigit(n, 3 * i - 3) + 10 * DecimalDigit(n, 3 * i - 2)
        + 100 * DecimalDigit(n, 3 * i - 1)

\* the number of base-1000 digits of the positive integer n
Base1000Length(n) == (NumDigits(n.m) + n.e + 2) \div 3

\* C20: split_thousands returns the base-1000 digits of a non-negative
\* integer, least significant first: nothing for 0, and for n > 0 as many
\* triplets as n has base-1000 digits, each the digit of its weight, the
\* last one not 0 (no zero triplet above the most significant one).
C20_SplitThousands ==
    applied.op = "split_thousands" =>
        /\ is_zero(applied.arg) => applied.ret = <<>>
        /\ ~is_zero(applied.arg) =>
              /\ Len(applied.ret) = Base1000Length(applied.arg)
              /\ \A i \in 1..Len(applied.ret) :
                    /\ applied.ret[i] \in 0..999
                    /\ applied.ret[i] = Base1000Digit(applied.arg, i)
              /\ applied.ret[Len(applied.ret)] # 0

\* 1000 was split: zero triplets follow its most significant one
C20_Witness ==
    /\ applied.op = "split_thousands"
    /\ applied.arg = FromInt(1000)
    /\ Len(applied.ret) > 2
    /\ applied.ret[1] = 0
    /\ applied.ret[2] = 1
    /\ applied.ret[Len(applied.ret)] = 0

\* the number of words a Ukrainian cardinal has for the triplet t of index
\* order: hundreds, tens or teen, units, scale word
UkTripletWords(t, order) ==
    (IF (t \div 100) % 10 > 0 THEN 1 ELSE 0)
    + (IF (t \div 10) % 10 = 1 THEN 1
       ELSE (IF (t \div 10) % 10 > 1 THEN 1 ELSE 0) + (IF t % 10 > 0 THEN 1 ELSE 0))
    + (IF order # 0 /\ t # 0 THEN 1 ELSE 0)

RECURSIVE UkWordsAbove(_, _)
\* the number of words for the triplets of n above the i-th (from 1)
UkWordsAbove(n, i) ==
    IF i >= Base1000Length(n) THEN 0
    ELSE UkTripletWords(Base1000Digit(n, i + 1), i) + UkWordsAbove(n, i + 1)

\* the place, in the words of the cardinal of n, of the units word of the
\* i-th triplet (from 1)
UkUnitsPlace(n, i) ==
    (IF n.neg THEN 1 ELSE 0) + UkWordsAbove(n, i)
    + (IF (Base1000Digit(n, i) \div 100) % 10 > 0 THEN 1 ELSE 0)
    + (IF (Base1000Digit(n, i) \div 10) % 10 > 1 THEN 1 ELSE 0) + 1

\* the gender and the case the caller selected: the last preference of
\* the kind, masculine and nominative without one
CallerGender(prefs) ==
    IF SelectSeq(prefs, LAMBDA v : v \in {"f"}) # <<>> THEN "Feminine" ELSE "Masculine"
CallerCase(prefs) ==
    LET cases == SelectSeq(prefs, LAMBDA v : v \in {"gen", "acc"})
    IN IF cases = <<>> THEN "Nominative"
       ELSE IF cases[Len(cases)] = "gen" THEN "Genitive" ELSE "Accusative"

\* C21: in a Ukrainian cardinal the word for a units digit 1 or 2 is
\* feminine in the thousands triplet, masculine in every triplet above it
\* and of the caller's gender in the last triplet, and in every triplet in
\* the caller's case; 1000 is "одна тисяча" with the default profile.
C21_TripletGender ==
    (/\ Done
     /\ output = "Cardinal"
     /\ lang = "Ukrainian"
     /\ IsInteger(num) /\ ~is_zero(num)
     /\ IsOk(result)) =>
        /\ \A i \in 1..Base1000Length(num) :
              (/\ Base1000Digit(num, i) % 10 \in {1, 2}
               /\ (Base1000Digit(num, i) \div 10) % 10 # 1) =>
                 /\ UkUnitsPlace(num, i) <= Len(WordsOf(result[2]))
                 /\ WordsOf(result[2])[UkUnitsPlace(num, i)] =
                      UK_GENDERED[Base1000Digit(num, i) % 10]
                                 [Gender_index(IF i = 1 THEN CallerGender(preferences)
                                               ELSE IF i = 2 THEN "Feminine"
                                               ELSE "Masculine")]
                                 [Declination_index(CallerCase(preferences))]
        /\ (num = FromInt(1000) /\ preferences = <<>>) => result = Ok("odna tysACa")

\* one million and one was rendered for a caller who selected the feminine
C21_Witness ==
    /\ output = "Cardinal"
    /\ lang = "Ukrainian"
    /\ num = FromInt(1000001)
    /\ preferences = <<"f">>
    /\ IsOk(result)
    /\ WordsOf(result[2])[1] = "odyn"
    /\ WordsOf(result[2])[3] = "odna"

\* the number the caller selected: plural by a "pl" preference
CallerPlural(prefs) == SelectSeq(prefs, LAMBDA v : v \in {"pl"}) # <<>>

\* the hard adjective ending of the caller's gender, number and case
CallerAdjectiveEnding(prefs) ==
    IF CallerPlural(prefs)
    THEN UK_ADJECTIVE_HARD_FLEXIONS_PLURAL[Declination_index(CallerCase(prefs))]
    ELSE UK_ADJECTIVE_HARD_FLEXIONS_SINGULAR[Gender_index(CallerGender(prefs))]
                                            [Declination_index(CallerCase(prefs))]

\* n is 1000^k for some k >= 1
IsUnitOfScale(n) == ~n.inf /\ ~n.neg /\ n.m = 1 /\ n.e >= 3 /\ n.e % 3 = 0

\* the one-word ordinal of one unit of the k-th scale word
UnitOfScaleOrdinal(k, prefs) ==
    UK_MEGA_BASES[k] \o "n" \o CallerAdjectiveEnding(prefs)

\* C22: the Ukrainian ordinal of 1000^k, 1 <= k <= 21, is the single word
\* made of the k-th scale base, "н" and the adjective ending of the caller's
\* gender, number and case (1000000 is "мільйонний"), and no other positive
\* integer is rendered as such a word.
C22_UnitOfScale ==
    (/\ Done
     /\ output = "Ordinal"
     /\ lang = "Ukrainian"
     /\ IsInteger(num) /\ ~num.neg /\ ~is_zero(num)) =>
        /\ (IsUnitOfScale(num) /\ num.e \div 3 <= 21) =>
              /\ result = Ok(UnitOfScaleOrdinal(num.e \div 3, preferences))
              /\ ~contains(result[2], " ")
        /\ (num = FromInt(1000000) /\ preferences = <<>>) => result = Ok("milqjonnyj")
        /\ (~IsUnitOfScale(num) /\ IsOk(result)) =>
              \A k \in 1..21 : result[2] # UnitOfScaleOrdinal(k, preferences)

\* the ordinal of 1000^21 was rendered in the genitive
C22_Witness ==
    /\ output = "Ordinal"
    /\ lang = "Ukrainian"
    /\ num = Dec(FALSE, 1, 63)
    /\ preferences = <<"gen">>
    /\ result = Ok("vihintylqjonnoho")

\* the words of a French text, those joined by a hyphen taken apart
FrTokens(s) ==
    UNION {{split(WordsOf(s)[j], "-")[h] : h \in 1..Len(split(WordsOf(s)[j], "-"))} :
              j \in 1..Len(WordsOf(s))}

\* C23: in a French cardinal a triplet of value 1 above the last one has no
\* unit word, so 1000^k is the bare k-th scale word for k in 1..33; "mille"
\* never takes an "s"; a scale word above it takes an "s" exactly when its
\* triplet is not 1 ("cent milliards", "trente-huit billions").
C23_FrenchScaleWords ==
    (/\ Done
     /\ output = "Cardinal"
     /\ lang \in {"French", "French_BE", "French_CH"}
     /\ IsInteger(num) /\ ~is_zero(num)
     /\ IsOk(result)) =>
        /\ (IsUnitOfScale(num) /\ num.e \div 3 <= 33) => result = Ok(FR_MEGAS[num.e \div 3])
        /\ \A i \in 2..Base1000Length(num) :
              Base1000Digit(num, i) # 0 =>
                 LET has_bare == FR_MEGAS[i - 1] \in FrTokens(result[2])
                     has_plural == (FR_MEGAS[i - 1] \o "s") \in FrTokens(result[2])
                 IN IF i = 2 \/ Base1000Digit(num, i) = 1
                    THEN has_bare /\ ~has_plural
                    ELSE has_plural /\ ~has_bare
        /\ (num = Dec(FALSE, 1, 11) /\ preferences = <<>>) => result = Ok("cent milliards")
        /\ (num = Dec(FALSE, 38, 12) /\ preferences = <<>>) =>
              result = Ok("trente-huit billions")

\* a number of two thousands and one was rendered in French
C23_Witness ==
    /\ output = "Cardinal"
    /\ lang = "French"
    /\ num = FromInt(2001)
    /\ preferences = <<>>
    /\ result = Ok("deux mille un")

\* the last string of a preference vector that is in a set, "" without one
LastOf(prefs, set) ==
    IF SelectSeq(prefs, LAMBDA v : v \in set) = <<>> THEN ""
    ELSE SelectSeq(prefs, LAMBDA v : v \in set)[Len(SelectSeq(prefs, LAMBDA v : v \in set))]

\* C24: the renderer is configured from the last preference of each kind
\* and ignores the other strings: English prefers "oh" or "nil" by the last
\* of these two, neither without one; Ukrainian takes gender, number and
\* case each from the last string naming one, masculine, singular and
\* nominative without one.
C24_LastPreference ==
    applied.op = "to_language" =>
        /\ applied.lang = "English" =>
              /\ applied.ret.kind = "English"
              /\ applied.ret.self.prefer_oh = (LastOf(applied.prefs, {"oh", "nil"}) = "oh")
              /\ applied.ret.self.prefer_nil = (LastOf(applied.prefs, {"oh", "nil"}) = "nil")
              /\ English_to_cardinal(applied.ret.self, FromInt(0)) =
                    Ok(IF LastOf(applied.prefs, {"oh", "nil"}) = "" THEN "zero"
                       ELSE LastOf(applied.prefs, {"oh", "nil"}))
        /\ applied.lang = "Ukrainian" =>
              /\ applied.ret.kind = "Ukrainian"
              /\ applied.ret.self.gender =
                    (CASE LastOf(applied.prefs, {"m", "f", "n"}) = "f" -> "Feminine"
                       [] LastOf(applied.prefs, {"m", "f", "n"}) = "n" -> "Neuter"
                       [] OTHER -> "Masculine")
              /\ applied.ret.self.number =
                    (IF LastOf(applied.prefs, {"sing", "pl"}) = "pl" THEN "Plural"
                     ELSE "Singular")
              /\ applied.ret.self.declination =
                    (IF LastOf(applied.prefs, {"nom", "gen"}) = "gen" THEN "Genitive"
                     ELSE "Nominative")

\* a Ukrainian renderer was configured after two preferences of one kind
C24_Witness ==
    /\ applied.op = "to_language"
    /\ applied.lang = "Ukrainian"
    /\ applied.prefs = <<"f", "gen", "m">>
    /\ applied.ret.self = Ukrainian_new("Masculine", "Singular", "Genitive")

\* C25: the currency text of a finite amount with a nonzero fractional part
\* and a subunit count of zero (1.001, 0.001) is the currency text of its
\* integral part alone, in every language: no subunit count, no subunit
\* name and no separator is left.
C25_ZeroSubunitElided ==
    (/\ Done
     /\ output = "Currency"
     /\ ~num.inf /\ ~IsInteger(num)
     /\ Hundredths(num) = 0) =>
        /\ IsOk(result)
        /\ result = to_words(int(num), lang, "Currency", currency, preferences)
        /\ result[2] = Join(WordsOf(result[2]), " ")

\* a thousandth of a dollar was rendered in Ukrainian
C25_Witness ==
    /\ output = "Currency"
    /\ lang = "Ukrainian"
    /\ currency = "DOLLAR"
    /\ num = Dec(FALSE, 1, 0 - 3)
    /\ preferences = <<>>
    /\ result = Ok(" centiv")

\* the short ending of a profile that does not look at the number
ProfileEnding(prefs) ==
    IF CallerPlural(prefs)
    THEN UK_ORDINAL_FLEXIONS_PLURAL_SHORT[Declination_index(CallerCase(prefs))]
    ELSE UK_ORDINAL_HARD_FLEXIONS_SINGULAR_SHORT[Gender_index(CallerGender(prefs))]
                                                [Declination_index(CallerCase(prefs))]

\* n ends in 3 and not in 13: its ordinal word is the soft adjective
EndsInThree(n) == DecimalDigit(n, 0) = 3 /\ DecimalDigit(n, 1) # 1

\* the short ending of a profile for the number n: in the singular the soft
\* one when n ends in 3 and not in 13
ShortEnding(prefs, n) ==
    IF ~CallerPlural(prefs) /\ EndsInThree(n)
    THEN UK_ORDINAL_SOFT_FLEXIONS_SINGULAR_SHORT[Gender_index(CallerGender(prefs))]
                                                [Declination_index(CallerCase(prefs))]
    ELSE ProfileEnding(prefs)

HundredsAbove(n) == {FromInt(SmallVal(n) + 100 * j) : j \in 1..9}

\* C27: the Ukrainian ordinal is injective for a fixed profile: a
\* non-negative integer n and n + 100 * j, j in 1..9, never have the same
\* ordinal text (100, 200, ..., 900 have nine different texts).
C27_OrdinalInjective ==
    (/\ Done
     /\ output = "Ordinal"
     /\ lang = "Ukrainian"
     /\ IsInteger(num) /\ ~num.neg
     /\ NumDigits(num.m) + num.e <= 7
     /\ IsOk(result)) =>
        \A other \in HundredsAbove(num) :
            to_words(other, lang, output, currency, preferences) # result

\* the ordinal of 100 was rendered without a word for its hundreds
C27_Witness ==
    /\ output = "Ordinal"
    /\ lang = "Ukrainian"
    /\ num = FromInt(100)
    /\ preferences = <<>>
    /\ result = Ok("sotyj")
    /\ to_words(FromInt(200), lang, output, currency, preferences) = Ok("sotyj")

\* C28: the cardinal of a finite negative non-integer keeps the sign, in
\* every language and also when the integral part is zero (-0.5): the text
\* is the minus word of the language, a space and the cardinal of the
\* absolute value.
C28_NegativeFraction ==
    (/\ Done
     /\ output = "Cardinal"
     /\ ~num.inf /\ ~IsInteger(num)
     /\ num.neg) =>
        /\ IsOk(result)
        /\ IsOk(to_words(Abs(num), lang, output, currency, preferences))
        /\ result[2] = MinusWord(lang) \o " "
                         \o to_words(Abs(num), lang, output, currency, preferences)[2]

\* minus one half was rendered in Ukrainian, without a minus word
C28_Witness ==
    /\ output = "Cardinal"
    /\ lang = "Ukrainian"
    /\ num = Dec(TRUE, 5, 0 - 1)
    /\ preferences = <<>>
    /\ result = Ok("nulA cilyx p'Aty desAtyx")

\* C29: the English or French currency text of a finite negative amount
\* with a nonzero integral part and a nonzero subunit count (-1.50) has the
\* minus word once, at the start, and then the currency text of the
\* absolute amount.
C29_MinusOnce ==
    (/\ Done
     /\ output = "Currency"
     /\ lang \in {"English", "French", "French_BE", "French_CH"}
     /\ SmallAmount(num) /\ num.neg
     /\ Integral(num) # 0 /\ Hundredths(num) # 0) =>
        /\ IsOk(result)
        /\ Len(SelectSeq(WordsOf(result[2]), LAMBDA w : w = MinusWord(lang))) = 1
        /\ WordsOf(result[2])[1] = MinusWord(lang)
        /\ IsOk(to_words(Abs(num), lang, output, currency, preferences))
        /\ result[2] = MinusWord(lang) \o " "
                         \o to_words(Abs(num), lang, output, currency, preferences)[2]

\* minus one dollar and a half was rendered in English
C29_Witness ==
    /\ output = "Currency"
    /\ lang = "English"
    /\ currency = "DOLLAR"
    /\ num = Dec(TRUE, 150, 0 - 2)
    /\ result = Ok("minus one dollars and minus fifty cents")

\* a preference vector without its strings naming a gender or a number
WithoutGenderNumber(prefs) == SelectSeq(prefs, LAMBDA v : v \notin {"f", "pl"})

\* C30: the Ukrainian currency text does not depend on the gender or the
\* number the caller prefers: the request gives the text of the same request
\* without these preferences, for every amount, currency and case.
C30_CurrencyProfile ==
    (/\ Done
     /\ output = "Currency"
     /\ lang = "Ukrainian") =>
        result = to_words(num, lang, output, currency, WithoutGenderNumber(preferences))

\* one dollar was rendered in Ukrainian for a caller who prefers the feminine
C30_Witness ==
    /\ output = "Currency"
    /\ lang = "Ukrainian"
    /\ currency = "DOLLAR"
    /\ num = FromInt(1)
    /\ preferences = <<"f">>
    /\ result = Ok("odyn dolar")

====
